---- MODULE Spec2Model ----
(***************************************************************************)
(* DocManFu processing pipeline.                                           *)
(*                                                                         *)
(* Two state machines share this module.                                   *)
(*   SpecBatch  the batch controller (app/tasks/batch_reprocess.py) with   *)
(*              the admin endpoints that drive it (app/api/imports.py) and *)
(*              the Redis control keys they share.                         *)
(*   SpecJob    one ProcessingJob row, the queue-driven process_ocr task   *)
(*              that mutates it through DocManFuTask (app/tasks/base.py,   *)
(*              app/tasks/ocr.py), Celery's retry machinery and the user   *)
(*              cancel endpoint (app/api/jobs.py).                         *)
(*                                                                         *)
(* Every Redis command is one atomic step; statements that touch only the  *)
(* task's local variables are folded into the neighbouring step.           *)
(***************************************************************************)
EXTENDS Integers, Sequences, FiniteSets, TLC

\* ---- bounds --------------------------------------------------------------
MaxRuns == 2        \* batch task ids the start endpoint can hand out
MaxDocs == 2        \* longest document_ids list of a batch run
MaxApi  == 2        \* admin requests (start/pause/resume/skip/cancel) per behaviour
MaxCancels == 2     \* POST /api/jobs/<id>/cancel requests per behaviour

None == "none"      \* an absent Redis key, a Python None
NoTask == 0         \* no task id (run ids are 1..MaxRuns)

Runs == 1..MaxRuns
Docs == 1..MaxDocs

JobTypes == {"ocr", "ai"}                        \* ReprocessRequest.job_type
Mimes    == {"pdf", "image", "text", "other"}    \* branches of _run_ocr on doc.mime_type

VARIABLES
    \* Redis control keys (batch_reprocess.py:17-19, 81)
    activeTask,     \* batch_reprocess:active_task  : a run id or None
    pauseKey,       \* batch_reprocess:pause:<id>   : None, "0" or "1"
    cancelKey,      \* batch_reprocess:cancel:<id>  : None or "1"
    skipKey,        \* batch_reprocess:skip:<id>    : None or "1"
    \* one execution of batch_reprocess_task per run id
    pc,             \* position of the task in its code
    total,          \* len(document_ids)
    job_type,       \* the task's job_type argument
    idx,            \* loop index into document_ids (1-based)
    stats,          \* the stats dict without its errors list
    errors,         \* stats["errors"]
    result,         \* status of the value the task is going to return
    proc,           \* the ocrmypdf subprocess of the current document
    terminal,       \* terminal events published by the run, in order
    progress,       \* last reprocess.progress event published by the run
    \* Document rows (only the column the batch stage writes)
    content_text,
    doc_fields,     \* type and bill tracking of each Document row
    \* admin API
    apiCalls,       \* requests served so far
    resp,           \* last response of POST /reprocess
    cancelReq,      \* task id of a cancel request between its two Redis commands
    activeReq,      \* a GET /reprocess/active request has found the marker stale
                    \* and has not deleted it yet
    \* history of the control requests, read by the properties only
    skipReq,        \* where each run was when its skip key was last set
    cancelledAt,    \* <<stats.processed, loop index, position>> of each run when its
                    \* cancel key was first set
    rivals,         \* the runs enqueued and not yet returned when each run was enqueued
    \* one ProcessingJob row and the execution of its task
    job,            \* the row (models/processing_job.py:26-50)
    jpc,            \* position of the Celery task of the job
    retries,        \* self.request.retries
    revoked,        \* the task id is on the workers' revoked list
    now,            \* the clock datetime.now reads
    cancelling,     \* a cancel request has passed its status check
    cancels,        \* cancel requests served so far
    published,      \* the last event a lifecycle method handed to publish_event
    transport_up,   \* the Redis pub/sub transport accepts messages
    \* the Document row of the job (only the columns the tasks read or write)
    document,
    followups,      \* classification jobs created / dispatched by process_ocr
    \* process_ai_analysis: locals of the running execution
    ai_config,      \* what _load_ai_config returned
    ai_result,      \* result
    last_call,      \* the external call the running execution made last (the
                    \* provider, or ocrmypdf) and how it ended
    \* GET /api/events: one client of the event stream
    stream,         \* user_id and is_admin of the running _event_generator
    channel,        \* messages on the Redis channel the generator has not read
    yielded,        \* payload user_id of every event sent to the client
    \* app/core/settings_service.py: the settings of one process
    cache,          \* _cache: the value held for a key, None when the key is not in it
    cache_time,     \* _cache_time
    rows,           \* the AppSetting rows: the value stored for a key, None without a row
    clock,          \* time.time()
    fetched_at,     \* for a key in the cache: when its value was read from the
                    \* database, and how many writes this process had made by then
    writes,         \* calls of set_ai_settings / delete_all_ai_settings so far
    served          \* what the last call of get_setting returned: the value,
                    \* whether it came from the cache, how long before it had
                    \* been read from the database (age), and whether it was
                    \* cached after this process's last write (fresh)

batchVars == <<activeTask, pauseKey, cancelKey, skipKey, pc, total, job_type, idx,
               stats, errors, result, proc, terminal, progress, content_text, doc_fields,
               apiCalls, resp, cancelReq, activeReq, skipReq, cancelledAt, rivals>>

jobVars == <<job, jpc, retries, revoked, now, cancelling, cancels, published,
             transport_up, document, followups, ai_config, ai_result, last_call>>

streamVars == <<stream, channel, yielded>>

settingsVars == <<cache, cache_time, rows, clock, fetched_at, writes, served>>

vars == <<batchVars, jobVars, streamVars, settingsVars>>

\* ---- the settings cache (app/core/settings_service.py:14-17, 36) -----------
CACHE_TTL == 300        \* _CACHE_TTL, seconds
Tick == 100             \* the seconds that pass between two looks at the clock
MaxClock == 800         \* the clock is followed up to here
MaxWrites == 2          \* writes of the settings by this process

\* two of the keys of AI_SETTING_KEYS, neither of them secret
AI_SETTING_KEYS == {"ai_provider", "ai_model"}
SettingValues == {"a", "b"}

\* the history of a key that is not in the cache
NotFetched == [at |-> 0, writes |-> 0]

\* get_setting has not been called
NoServed == [key |-> "none", value |-> "none", cached |-> FALSE, age |-> 0, fresh |-> TRUE]

\* module load (lines 15-16) in a process started long after the epoch, with
\* no row in the table yet
SettingsInit ==
    /\ cache = [k \in AI_SETTING_KEYS |-> "none"]
    /\ cache_time = 0
    /\ rows = [k \in AI_SETTING_KEYS |-> "none"]
    /\ clock = CACHE_TTL
    /\ fetched_at = [k \in AI_SETTING_KEYS |-> NotFetched]
    /\ writes = 0
    /\ served = NoServed

\* ---- Redis helpers (batch_reprocess.py:26-97) -----------------------------
is_paused(t)    == pauseKey[t] = "1"
is_cancelled(t) == cancelKey[t] = "1"
should_skip(t)  == skipKey[t] = "1"
get_active_task == activeTask

set_paused(t, paused) == pauseKey' = [pauseKey EXCEPT ![t] = IF paused THEN "1" ELSE "0"]
set_cancelled(t)      == cancelKey' = [cancelKey EXCEPT ![t] = "1"]
set_skip(t)           == skipKey' = [skipKey EXCEPT ![t] = "1"]
clear_skip(t)         == skipKey' = [skipKey EXCEPT ![t] = None]
set_active_task(t)    == activeTask' = t

cleanup_keys(t) ==
    /\ pauseKey'  = [pauseKey  EXCEPT ![t] = None]
    /\ cancelKey' = [cancelKey EXCEPT ![t] = None]
    /\ skipKey'   = [skipKey   EXCEPT ![t] = None]

\* ---- events ---------------------------------------------------------------
\* publish_event without its handler (events.py:31-32).
publish_event_noCatch(transport_works) ==
    IF transport_works THEN "returns" ELSE "raises"

\* publish_event (app/core/events.py:20-32): whether the call returns to its
\* caller or raises, given whether the Redis transport works. The body is one
\* try block whose handler catches Exception and logs.
publish_event(transport_works) == "returns"

\* where a caller stands after its call of publish_event: at on when the call
\* returned, at raised when it raised
AfterPublish(on, raised) ==
    IF publish_event(transport_up) = "returns" THEN on ELSE raised

ZeroStats == [processed |-> 0, succeeded |-> 0, failed |-> 0, skipped |-> 0]

TerminalEvent(event, status, st, errs, n) ==
    [event |-> event, status |-> status, processed |-> st.processed,
     succeeded |-> st.succeeded, failed |-> st.failed, skipped |-> st.skipped,
     errors |-> errs, total |-> n]

NoProgress == [current |-> 0, total |-> 0, succeeded |-> 0, failed |-> 0, skipped |-> 0,
               current_document |-> "", paused |-> FALSE, status |-> None]

\* publish_progress (batch_reprocess.py:147-162): the event built from the
\* stats st, with the pause key read at publication time.
publish_progress(t, st, name, status) ==
    progress' = [progress EXCEPT ![t] =
        [current |-> st.processed, total |-> total[t], succeeded |-> st.succeeded,
         failed |-> st.failed, skipped |-> st.skipped, current_document |-> name,
         paused |-> is_paused(t), status |-> status]]

\* ---- ProcessingJob (app/models/processing_job.py) ---------------------------
NoTime == 0         \* a NULL started_at / completed_at

\* The row an upload or reprocess request inserts before it dispatches the
\* task (app/api/documents.py:270-273): column defaults, no task id yet.
NewJob == [status |-> "pending", progress |-> 0, error_message |-> None,
           started_at |-> NoTime, completed_at |-> NoTime,
           celery_task_id |-> None, result_data |-> None, exists |-> TRUE,
           job_type |-> "ocr"]

\* JobType (processing_job.py:13-16); the task a job is dispatched to goes by
\* its type
JobType == {"ocr", "ai_analysis", "file_organization"}

\* no event published yet; flip changes with every call of publish_event,
\* delivered tells whether the transport took the message
NoEvent == [event |-> None, flip |-> 0, delivered |-> FALSE]

\* no classification job created by the extraction task yet; provider is
\* what the test of settings.AI_PROVIDER (ocr.py:100) found: "set", "unset",
\* or None while no execution has reached it
NoFollowups == [created |-> 0, dispatched |-> 0, provider |-> None]

\* no AIAnalysisResult: result is None (ai_analysis.py:58)
NoResult == [document_type |-> None, due_date |-> None]

\* nobody is connected to the event stream
NoStream == [user_id |-> None, is_admin |-> FALSE, connected |-> FALSE]

\* no external call made by the running execution
NoCall == [path |-> None, outcome |-> None]

\* the Document row an upload inserts (app/api/documents.py:255-265): no text
\* yet, not classified, no bill tracking (models/document.py:33-39)
NewDocument == [content_text |-> None, document_type |-> None, bill_status |-> None,
                bill_due_date |-> None, bill_paid_at |-> NoTime]

\* the classification columns of a Document row that was never classified
NoFields == [document_type |-> None, bill_status |-> None, bill_due_date |-> None,
             bill_paid_at |-> NoTime]

\* initial values of the variables that belong to one job and its task
JobQueued(type) ==
    /\ job = [NewJob EXCEPT !.job_type = type]
    /\ jpc = "queued"
    /\ retries = 0
    /\ revoked = FALSE
    /\ now = 1
    /\ cancelling = FALSE
    /\ cancels = 0
    /\ published = NoEvent
    /\ transport_up = TRUE
    /\ followups = NoFollowups
    /\ ai_config = None
    /\ ai_result = NoResult
    /\ last_call = NoCall

\* an upload has queued one extraction job (app/api/documents.py:270-279)
JobInit == JobQueued("ocr")

\* initial values of the Redis keys, the batch tasks and the admin API
BatchInit ==
    /\ activeTask = NoTask
    /\ pauseKey  = [t \in Runs |-> None]
    /\ cancelKey = [t \in Runs |-> None]
    /\ skipKey   = [t \in Runs |-> None]
    /\ pc        = [t \in Runs |-> "unused"]
    /\ total     = [t \in Runs |-> 0]
    /\ job_type  = [t \in Runs |-> "ocr"]
    /\ idx       = [t \in Runs |-> 0]
    /\ stats     = [t \in Runs |-> ZeroStats]
    /\ errors    = [t \in Runs |-> <<>>]
    /\ result    = [t \in Runs |-> None]
    /\ proc      = [t \in Runs |-> None]
    /\ terminal  = [t \in Runs |-> <<>>]
    /\ progress  = [t \in Runs |-> NoProgress]
    /\ content_text = [d \in Docs |-> "orig"]
    /\ doc_fields = [d \in Docs |-> NoFields]
    /\ apiCalls  = 0
    /\ resp      = [code |-> 0, task_id |-> NoTask]
    /\ cancelReq = NoTask
    /\ activeReq = FALSE
    /\ stream = NoStream
    /\ channel = <<>>
    /\ yielded = {}
    /\ SettingsInit
    /\ skipReq = [t \in Runs |-> [doc |-> 0, at |-> None]]
    /\ cancelledAt = [t \in Runs |-> <<>>]
    /\ rivals = [t \in Runs |-> {}]

Init ==
    /\ BatchInit
    /\ JobInit
    /\ document = NewDocument

\* ---- admin endpoints (app/api/imports.py) ---------------------------------
keyVars  == <<activeTask, pauseKey, cancelKey, skipKey>>
taskVars == <<pc, total, job_type, idx, stats, errors, result, proc, terminal, progress>>

\* one more request is served
Served ==
    /\ apiCalls < MaxApi
    /\ apiCalls' = apiCalls + 1

\* POST /reprocess (lines 121-171) for a filter that matches n documents,
\* n > 0: 409 when the active-run marker is set, otherwise the task is
\* enqueued under a fresh task id.
start_batch_reprocess(n, jt) ==
    IF get_active_task # NoTask
    THEN /\ Served
         /\ resp' = [code |-> 409, task_id |-> NoTask]
         /\ UNCHANGED <<keyVars, taskVars, content_text, doc_fields, cancelReq, activeReq, skipReq,
                        cancelledAt, rivals, jobVars, streamVars, settingsVars>>
    ELSE \E t \in Runs :
         /\ pc[t] = "unused"
         /\ \A u \in Runs : u < t => pc[u] # "unused"
         /\ Served
         /\ resp' = [code |-> 200, task_id |-> t]
         /\ pc' = [pc EXCEPT ![t] = "queued"]
         /\ total' = [total EXCEPT ![t] = n]
         /\ job_type' = [job_type EXCEPT ![t] = jt]
         /\ rivals' = [rivals EXCEPT ![t] = {u \in Runs : pc[u] \notin {"unused", "done"}}]
         /\ UNCHANGED <<keyVars, idx, stats, errors, result, proc, terminal, progress,
                        content_text, doc_fields, cancelReq, activeReq, skipReq, cancelledAt, jobVars, streamVars, settingsVars>>

pause_reprocess(t) ==
    /\ pc[t] # "unused"
    /\ Served
    /\ set_paused(t, TRUE)
    /\ UNCHANGED <<activeTask, cancelKey, skipKey, taskVars, content_text, doc_fields, resp,
                   cancelReq, activeReq, skipReq, cancelledAt, rivals, jobVars, streamVars, settingsVars>>

resume_reprocess(t) ==
    /\ pc[t] # "unused"
    /\ Served
    /\ set_paused(t, FALSE)
    /\ UNCHANGED <<activeTask, cancelKey, skipKey, taskVars, content_text, doc_fields, resp,
                   cancelReq, activeReq, skipReq, cancelledAt, rivals, jobVars, streamVars, settingsVars>>

skip_current_document(t) ==
    /\ pc[t] # "unused"
    /\ Served
    /\ set_skip(t)
    /\ skipReq' = [skipReq EXCEPT ![t] = [doc |-> idx[t], at |-> pc[t]]]
    /\ UNCHANGED <<activeTask, pauseKey, cancelKey, taskVars, content_text, doc_fields, resp,
                   cancelReq, activeReq, cancelledAt, rivals, jobVars, streamVars, settingsVars>>

\* cancel_reprocess without set_cancelled (line 223): the request only goes on
\* to delete the marker.
cancel_reprocess_noFlag(t) ==
    /\ pc[t] # "unused"
    /\ cancelReq = NoTask
    /\ apiCalls < MaxApi
    /\ cancelReq' = t
    /\ cancelledAt' = [cancelledAt EXCEPT ![t] =
           IF @ = <<>> THEN <<stats[t].processed, idx[t], pc[t]>> ELSE @]
    /\ UNCHANGED <<keyVars, taskVars, content_text, doc_fields, apiCalls, resp, activeReq,
                   skipReq, rivals, jobVars, streamVars, settingsVars>>

\* POST /reprocess/cancel/<id>, first command: set_cancelled(task_id).
cancel_reprocess(t) ==
    /\ pc[t] # "unused"
    /\ cancelReq = NoTask
    /\ apiCalls < MaxApi
    /\ set_cancelled(t)
    /\ cancelReq' = t
    /\ cancelledAt' = [cancelledAt EXCEPT ![t] =
           IF @ = <<>> THEN <<stats[t].processed, idx[t], pc[t]>> ELSE @]
    /\ UNCHANGED <<activeTask, pauseKey, skipKey, taskVars, content_text, doc_fields, apiCalls, resp, activeReq,
                   skipReq, rivals, jobVars, streamVars, settingsVars>>

\* ... second command: set_active_task(NoTask), whatever the marker names.
cancel_reprocess_release ==
    /\ cancelReq # NoTask
    /\ Served
    /\ set_active_task(NoTask)
    /\ cancelReq' = NoTask
    /\ UNCHANGED <<pauseKey, cancelKey, skipKey, taskVars, content_text, doc_fields, resp, activeReq, skipReq,
                   cancelledAt, rivals, jobVars, streamVars, settingsVars>>

\* ---- batch_reprocess_task (batch_reprocess.py:100-257) --------------------
apiVars == <<apiCalls, resp, cancelReq, activeReq, skipReq, cancelledAt, rivals>>

Bump(st, field) == [st EXCEPT ![field] = @ + 1]

\* The document the loop is at: document_ids is <<1, ..., total>>.
CurrentDoc(t) == idx[t]

\* doc.original_name or doc.filename
DocName(d) == ToString(d)

\* BatchCheckActive whose blocked branch leaves through the cleanup of lines
\* 245-246 (the early return placed inside the try block).
BatchCheckActive_cleansUp(t) ==
    /\ pc[t] = "queued"
    /\ LET existing == get_active_task IN
       IF existing # NoTask /\ existing # t
       THEN /\ terminal' = [terminal EXCEPT ![t] = Append(@,
                   TerminalEvent("reprocess.completed", "blocked", ZeroStats,
                                 <<[document |-> "(blocked)", error |-> "blocked"]>>,
                                 total[t]))]
            /\ result' = [result EXCEPT ![t] = AfterPublish("blocked", @)]
            /\ pc' = [pc EXCEPT ![t] = AfterPublish("done", "crashed")]
            /\ set_active_task(NoTask)
       ELSE /\ pc' = [pc EXCEPT ![t] = "claim"]
            /\ UNCHANGED <<terminal, result, activeTask>>
    /\ UNCHANGED <<pauseKey, cancelKey, skipKey, total, job_type, idx, stats, errors,
                   proc, progress, content_text, doc_fields, apiVars, jobVars, streamVars, settingsVars>>

\* lines 109-133: read the marker; a marker naming another run ends the task
\* with one 'blocked' event and nothing else.
BatchCheckActive(t) ==
    /\ pc[t] = "queued"
    /\ LET existing == get_active_task IN
       IF existing # NoTask /\ existing # t
       THEN /\ terminal' = [terminal EXCEPT ![t] = Append(@,
                   TerminalEvent("reprocess.completed", "blocked", ZeroStats,
                                 <<[document |-> "(blocked)", error |-> "blocked"]>>,
                                 total[t]))]
            /\ result' = [result EXCEPT ![t] = AfterPublish("blocked", @)]
            /\ pc' = [pc EXCEPT ![t] = AfterPublish("done", "crashed")]
       ELSE /\ pc' = [pc EXCEPT ![t] = "claim"]
            /\ UNCHANGED <<terminal, result>>
    /\ UNCHANGED <<keyVars, total, job_type, idx, stats, errors, proc, progress,
                   content_text, doc_fields, apiVars, jobVars, streamVars, settingsVars>>

\* lines 135-145
BatchClaim(t) ==
    /\ pc[t] = "claim"
    /\ set_active_task(t)
    /\ stats' = [stats EXCEPT ![t] = ZeroStats]
    /\ errors' = [errors EXCEPT ![t] = <<>>]
    /\ pc' = [pc EXCEPT ![t] = "begin"]
    /\ UNCHANGED <<pauseKey, cancelKey, skipKey, total, job_type, idx, result, proc,
                   terminal, progress, content_text, doc_fields, apiVars, jobVars, streamVars, settingsVars>>

\* line 165
BatchBegin(t) ==
    /\ pc[t] = "begin"
    /\ publish_progress(t, stats[t], "", "starting")
    /\ idx' = [idx EXCEPT ![t] = 1]
    /\ pc' = [pc EXCEPT ![t] = AfterPublish("loop", "fatal")]
    /\ UNCHANGED <<keyVars, total, job_type, stats, errors, result, proc, terminal,
                   content_text, doc_fields, apiVars, jobVars, streamVars, settingsVars>>

\* lines 167-183: next item of the for loop, then the cancel check
BatchLoop(t) ==
    /\ pc[t] = "loop"
    /\ IF idx[t] > total[t]
       THEN /\ result' = [result EXCEPT ![t] = "completed"]
            /\ pc' = [pc EXCEPT ![t] = "finally"]
            /\ UNCHANGED terminal
       ELSE IF is_cancelled(t)
       THEN /\ terminal' = [terminal EXCEPT ![t] = Append(@,
                   TerminalEvent("reprocess.cancelled", "cancelled", stats[t],
                                 errors[t], total[t]))]
            /\ result' = [result EXCEPT ![t] = AfterPublish("cancelled", @)]
            /\ pc' = [pc EXCEPT ![t] = AfterPublish("cancel_cleanup", "fatal")]
       ELSE /\ pc' = [pc EXCEPT ![t] = "pause"]
            /\ UNCHANGED <<terminal, result>>
    /\ UNCHANGED <<keyVars, total, job_type, idx, stats, errors, proc, progress,
                   content_text, doc_fields, apiVars, jobVars, streamVars, settingsVars>>

\* line 180
BatchCancelCleanup(t) ==
    /\ pc[t] = "cancel_cleanup"
    /\ cleanup_keys(t)
    /\ pc' = [pc EXCEPT ![t] = "cancel_release"]
    /\ UNCHANGED <<activeTask, total, job_type, idx, stats, errors, result, proc,
                   terminal, progress, content_text, doc_fields, apiVars, jobVars, streamVars, settingsVars>>

\* lines 181-183: release the marker and return through the finally block
BatchCancelRelease(t) ==
    /\ pc[t] = "cancel_release"
    /\ set_active_task(NoTask)
    /\ pc' = [pc EXCEPT ![t] = "finally"]
    /\ UNCHANGED <<pauseKey, cancelKey, skipKey, total, job_type, idx, stats, errors,
                   result, proc, terminal, progress, content_text, doc_fields, apiVars, jobVars, streamVars, settingsVars>>

\* BatchPause without the while loop of lines 186-190: the run never waits.
BatchPause_noWait(t) ==
    /\ pc[t] = "pause"
    /\ pc' = [pc EXCEPT ![t] = "resume"]
    /\ UNCHANGED <<keyVars, total, job_type, idx, stats, errors, result, proc,
                   terminal, progress, content_text, doc_fields, apiVars, jobVars, streamVars, settingsVars>>

\* line 186: the while condition
BatchPause(t) ==
    /\ pc[t] = "pause"
    /\ pc' = [pc EXCEPT ![t] = IF is_paused(t) THEN "paused" ELSE "resume"]
    /\ UNCHANGED <<keyVars, total, job_type, idx, stats, errors, result, proc,
                   terminal, progress, content_text, doc_fields, apiVars, jobVars, streamVars, settingsVars>>

\* line 187
BatchPausedEvent(t) ==
    /\ pc[t] = "paused"
    /\ publish_progress(t, stats[t], "", "paused")
    /\ pc' = [pc EXCEPT ![t] = AfterPublish("sleep", "fatal")]
    /\ UNCHANGED <<keyVars, total, job_type, idx, stats, errors, result, proc,
                   terminal, content_text, doc_fields, apiVars, jobVars, streamVars, settingsVars>>

\* lines 188-190
BatchSleep(t) ==
    /\ pc[t] = "sleep"
    /\ pc' = [pc EXCEPT ![t] = IF is_cancelled(t) THEN "resume" ELSE "pause"]
    /\ UNCHANGED <<keyVars, total, job_type, idx, stats, errors, result, proc,
                   terminal, progress, content_text, doc_fields, apiVars, jobVars, streamVars, settingsVars>>

\* lines 191-192: 'continue' takes the for loop to its next item
BatchResume(t) ==
    /\ pc[t] = "resume"
    /\ IF is_cancelled(t)
       THEN /\ idx' = [idx EXCEPT ![t] = @ + 1]
            /\ pc' = [pc EXCEPT ![t] = "loop"]
       ELSE /\ pc' = [pc EXCEPT ![t] = "lookup"]
            /\ UNCHANGED idx
    /\ UNCHANGED <<keyVars, total, job_type, stats, errors, result, proc, terminal,
                   progress, content_text, doc_fields, apiVars, jobVars, streamVars, settingsVars>>

\* BatchDocMissing without line 201: the missing row is counted as skipped
\* but not as processed.
BatchDocMissing_notProcessed(t) ==
    /\ pc[t] = "lookup"
    /\ stats' = [stats EXCEPT ![t] = Bump(@, "skipped")]
    /\ idx' = [idx EXCEPT ![t] = @ + 1]
    /\ pc' = [pc EXCEPT ![t] = "loop"]
    /\ UNCHANGED <<keyVars, total, job_type, errors, result, proc, terminal, progress,
                   content_text, doc_fields, apiVars, jobVars, streamVars, settingsVars>>

\* lines 194-202: the document row is gone
BatchDocMissing(t) ==
    /\ pc[t] = "lookup"
    /\ stats' = [stats EXCEPT ![t] = Bump(Bump(@, "skipped"), "processed")]
    /\ idx' = [idx EXCEPT ![t] = @ + 1]
    /\ pc' = [pc EXCEPT ![t] = "loop"]
    /\ UNCHANGED <<keyVars, total, job_type, errors, result, proc, terminal, progress,
                   content_text, doc_fields, apiVars, jobVars, streamVars, settingsVars>>

\* lines 204-214: the row is there, its file is not
BatchFileMissing(t) ==
    /\ pc[t] = "lookup"
    /\ publish_progress(t, stats[t], DocName(CurrentDoc(t)), "processing")
    /\ stats' = [stats EXCEPT ![t] = Bump(Bump(@, "skipped"), "processed")]
    /\ errors' = [errors EXCEPT ![t] = Append(@,
           [document |-> DocName(CurrentDoc(t)), error |-> "File not found on disk"])]
    /\ idx' = [idx EXCEPT ![t] = @ + 1]
    /\ pc' = [pc EXCEPT ![t] = "loop"]
    /\ UNCHANGED <<keyVars, total, job_type, result, proc, terminal, content_text, doc_fields,
                   apiVars, jobVars, streamVars, settingsVars>>

\* lines 204-208: row and file are there
BatchDocFound(t) ==
    /\ pc[t] = "lookup"
    /\ publish_progress(t, stats[t], DocName(CurrentDoc(t)), "processing")
    /\ pc' = [pc EXCEPT ![t] = AfterPublish("clear", "fatal")]
    /\ UNCHANGED <<keyVars, total, job_type, idx, stats, errors, result, proc,
                   terminal, content_text, doc_fields, apiVars, jobVars, streamVars, settingsVars>>

\* lines 194-198 raising (database failure), or a call inside the try block
\* of line 164 that left the run at "fatal": caught at lines 240-242
BatchFatal(t) ==
    /\ pc[t] \in {"lookup", "fatal"}
    /\ errors' = [errors EXCEPT ![t] = Append(@,
           [document |-> "(fatal)", error |-> "exception"])]
    /\ result' = [result EXCEPT ![t] = "completed"]
    /\ pc' = [pc EXCEPT ![t] = "finally"]
    /\ UNCHANGED <<keyVars, total, job_type, idx, stats, proc, terminal, progress,
                   content_text, doc_fields, apiVars, jobVars, streamVars, settingsVars>>

\* BatchClearSkip without line 218: the key is cleared only when consumed.
BatchClearSkip_noClear(t) ==
    /\ pc[t] = "clear"
    /\ pc' = [pc EXCEPT ![t] = "stage"]
    /\ UNCHANGED <<keyVars, total, job_type, idx, stats, errors, result, proc,
                   terminal, progress, content_text, doc_fields, apiVars, jobVars, streamVars, settingsVars>>

\* line 218
BatchClearSkip(t) ==
    /\ pc[t] = "clear"
    /\ clear_skip(t)
    /\ pc' = [pc EXCEPT ![t] = "stage"]
    /\ UNCHANGED <<activeTask, pauseKey, cancelKey, total, job_type, idx, stats,
                   errors, result, proc, terminal, progress, content_text, doc_fields, apiVars, jobVars, streamVars, settingsVars>>

\* ---- _normalize_document_type (app/core/ai_provider.py:389-434) ------------
\* _VALID_DOCUMENT_TYPES, lines 389-401
VALID_DOCUMENT_TYPES ==
    {"bill", "invoice", "receipt", "bank_statement", "insurance", "medical", "tax",
     "legal", "correspondence", "report", "other"}

\* _DOCUMENT_TYPE_ALIASES, lines 404-417, in the order of the dict
DOCUMENT_TYPE_ALIASES ==
    << <<"pre-auth letter", "insurance">>,
       <<"pre-auth", "insurance">>,
       <<"preauth", "insurance">>,
       <<"eob", "insurance">>,
       <<"explanation of benefits", "insurance">>,
       <<"claim", "insurance">>,
       <<"coverage", "insurance">>,
       <<"policy", "insurance">>,
       <<"statement", "bank_statement">>,
       <<"contract", "legal">>,
       <<"letter", "correspondence">>,
       <<"newsletter", "correspondence">> >>

UpperCase == "ABCDEFGHIJKLMNOPQRSTUVWXYZ"
LowerCase == "abcdefghijklmnopqrstuvwxyz"

\* the character of s at position i, as a string of length 1
CharAt(s, i) == SubSeq(s, i, i)

\* str.lower for the letters A-Z
lower(s) ==
    LET lowerChar(c) ==
            IF \E k \in 1..26 : CharAt(UpperCase, k) = c
            THEN CharAt(LowerCase, CHOOSE k \in 1..26 : CharAt(UpperCase, k) = c)
            ELSE c
        RECURSIVE go(_)
        go(i) == IF i > Len(s) THEN "" ELSE lowerChar(CharAt(s, i)) \o go(i + 1)
    IN  go(1)

\* str.strip for blanks
strip(s) ==
    LET blank(i) == CharAt(s, i) = " "
        first == IF \E i \in 1..Len(s) : ~blank(i)
                 THEN CHOOSE i \in 1..Len(s) : ~blank(i) /\ \A k \in 1..(i - 1) : blank(k)
                 ELSE Len(s) + 1
        last  == IF \E i \in 1..Len(s) : ~blank(i)
                 THEN CHOOSE i \in 1..Len(s) : ~blank(i) /\ \A k \in (i + 1)..Len(s) : blank(k)
                 ELSE Len(s)
    IN  SubSeq(s, first, last)

\* the operator 'a in b' of two strings
IsSubstring(a, b) ==
    \E i \in 1..(Len(b) - Len(a) + 1) : SubSeq(b, i, i + Len(a) - 1) = a

\* _normalize_document_type, lines 420-434; raw_type is None when the answer
\* has no document_type
normalize_document_type(raw_type) ==
    IF raw_type = None \/ raw_type = "" THEN "other"
    ELSE LET normalized == lower(strip(raw_type))
             exact == {k \in 1..Len(DOCUMENT_TYPE_ALIASES) :
                          DOCUMENT_TYPE_ALIASES[k][1] = normalized}
             partial == {k \in 1..Len(DOCUMENT_TYPE_ALIASES) :
                            \/ IsSubstring(DOCUMENT_TYPE_ALIASES[k][1], normalized)
                            \/ IsSubstring(normalized, DOCUMENT_TYPE_ALIASES[k][1])}
             least(S) == CHOOSE k \in S : \A m \in S : k <= m
         IN  IF normalized \in VALID_DOCUMENT_TYPES THEN normalized
             ELSE IF exact # {} THEN DOCUMENT_TYPE_ALIASES[least(exact)][2]
             ELSE IF partial # {} THEN DOCUMENT_TYPE_ALIASES[least(partial)][2]
             ELSE "other"

\* what the provider can put under document_type: nothing, blanks, valid
\* values in other spellings, aliases, and values that name no category
RawTypes == {None, "   ", "EOB", "random-garbage", " Bill ", "invoice", "correspondence",
             "e", "other"}

\* what the provider can put under extracted_metadata.due_date: nothing, an
\* ISO date, text that date.fromisoformat rejects
RawDueDates == {None, "2026-12-01", "soon"}

\* _normalize_document_type applied to each of these answers
NormalizedType == [raw_type \in RawTypes |-> normalize_document_type(raw_type)]

\* _parse_response, lines 448-454: the fields of AIAnalysisResult the tasks
\* read
AIAnalysisResult(raw_type, raw_due) ==
    [document_type |-> NormalizedType[raw_type], due_date |-> raw_due]

\* date.fromisoformat accepts the text
IsIsoDate(raw_due) == raw_due = "2026-12-01"

\* apply_classification without the test of line 148 (batch: line 441): a
\* billable result always sets the status to unpaid.
apply_classification_overwrites(doc, res) ==
    LET d1 == [doc EXCEPT !.document_type = res.document_type] IN
    IF res.document_type \in {"bill", "invoice"}
    THEN LET d2 == [d1 EXCEPT !.bill_status = "unpaid"]
         IN  IF res.due_date # None /\ IsIsoDate(res.due_date)
             THEN [d2 EXCEPT !.bill_due_date = res.due_date] ELSE d2
    ELSE IF d1.bill_status = "unpaid"
    THEN [d1 EXCEPT !.bill_status = None, !.bill_due_date = None]
    ELSE d1

\* The document fields the classification writes (ai_analysis.py:141-160,
\* batch_reprocess.py:435-452): the type, and the bill tracking. A bill or
\* invoice becomes unpaid unless it is paid or dismissed and takes the due
\* date when one parses; any other type clears status and due date of an
\* unpaid document.
apply_classification(doc, res) ==
    LET d1 == [doc EXCEPT !.document_type = res.document_type] IN
    IF res.document_type \in {"bill", "invoice"}
    THEN LET d2 == IF d1.bill_status \notin {"paid", "dismissed"}
                   THEN [d1 EXCEPT !.bill_status = "unpaid"] ELSE d1
         IN  IF res.due_date # None /\ IsIsoDate(res.due_date)
             THEN [d2 EXCEPT !.bill_due_date = res.due_date] ELSE d2
    ELSE IF d1.bill_status = "unpaid"
    THEN [d1 EXCEPT !.bill_status = None, !.bill_due_date = None]
    ELSE d1

\* the "changes" list of the document.updated event process_ai_analysis
\* publishes after its commit (ai_analysis.py:188-198), for the result res
document_updated_changes(res) ==
    {"ai_generated_name", "document_type", "ai_metadata", "tags"}
    \cup (IF res.document_type \in {"bill", "invoice"} THEN {"bill_status"} ELSE {})

\* the events _run_ai_analysis and the loop around it publish for a document
\* of a batch run (batch_reprocess.py:204-208, 235-238, 381-473)
BatchDocumentEvents == {"reprocess.progress"}

\* ---- the provider functions (app/core/ai_provider.py:461-571) --------------
\* what _load_ai_config can return: a usable provider, provider "none", a
\* provider without its API key, a provider name that is not in _PROVIDERS
AiConfigs == {"ok", "provider_none", "no_key", "unknown"}

\* what the provider can answer: a JSON object, nothing (network or provider
\* failure), text that json.loads rejects, JSON that is not an object
Responses == {"ok", "transient", "unparseable", "not_object"}

\* the ValueError messages of analyze_document / analyze_document_vision
\* (ai_provider.py:483-493, 538-548)
ConfigMessage(config) ==
    CASE config = "provider_none" -> "AI_PROVIDER is set to 'none'"
      [] config = "no_key"        -> "AI_API_KEY is not set"
      [] config = "unknown"       -> "Unknown AI_PROVIDER"

\* How analyze_document and analyze_document_vision leave (ai_provider.py:
\* 461-571): the checks of the configuration raise ValueError before the
\* provider is called; the provider call raises its client's exception on a
\* failure; _parse_response raises json.JSONDecodeError, a subclass of
\* ValueError, on text that is not JSON and AttributeError on JSON that is not
\* an object.
analyze_document(config, response) ==
    IF config # "ok" THEN "ValueError"
    ELSE CASE response = "ok"          -> "result"
           [] response = "transient"   -> "Exception"
           [] response = "unparseable" -> "ValueError"
           [] response = "not_object"  -> "Exception"

\* str(exc) of the ValueError
ValueErrorMessage(config, response) ==
    IF config # "ok" THEN ConfigMessage(config) ELSE "Expecting value"

\* why the vision path ends without a call of the provider: the file is not
\* on disk (line 78), rendering raises (lines 84-105, caught at line 115), or
\* no page image comes out (line 107)
NoVisionReasons == {"no_file", "render_failed", "no_pages"}

\* ---- the stage of one document (batch_reprocess.py:216-233, 260-473) ------
\* Outcome of the try block at lines 216-225 when the stage returns: the
\* document's text becomes text and the document counts as succeeded.
StageReturns(t, text) ==
    /\ content_text' = [content_text EXCEPT ![CurrentDoc(t)] = text]
    /\ stats' = [stats EXCEPT ![t] = Bump(@, "succeeded")]
    /\ proc' = [proc EXCEPT ![t] = None]
    /\ pc' = [pc EXCEPT ![t] = "after"]
    /\ UNCHANGED <<doc_fields, keyVars, total, job_type, idx, errors, result, terminal, progress,
                   apiVars, jobVars, streamVars, settingsVars>>

\* StageRaises without the handler of lines 230-233: the exception reaches
\* the handler of lines 240-242 and ends the run.
StageRaises_aborts(t, message) ==
    /\ errors' = [errors EXCEPT ![t] = Append(@,
           [document |-> "(fatal)", error |-> "exception"])]
    /\ result' = [result EXCEPT ![t] = "completed"]
    /\ proc' = [proc EXCEPT ![t] = None]
    /\ pc' = [pc EXCEPT ![t] = "finally"]
    /\ UNCHANGED <<keyVars, total, job_type, idx, stats, terminal, progress,
                   content_text, doc_fields, apiVars, jobVars, streamVars, settingsVars>>

\* lines 230-233: the stage raised something other than _SkipDocument;
\* message is str(e)
StageRaises(t, message) ==
    /\ stats' = [stats EXCEPT ![t] = Bump(@, "failed")]
    /\ errors' = [errors EXCEPT ![t] = Append(@,
           [document |-> DocName(CurrentDoc(t)), error |-> message])]
    /\ proc' = [proc EXCEPT ![t] = None]
    /\ pc' = [pc EXCEPT ![t] = "after"]
    /\ UNCHANGED <<keyVars, total, job_type, idx, result, terminal, progress,
                   content_text, doc_fields, apiVars, jobVars, streamVars, settingsVars>>

\* _process_pdf lines 285-298: some page has embedded text
process_pdf_fast(t) ==
    /\ pc[t] = "stage" /\ job_type[t] = "ocr"
    /\ StageReturns(t, "embedded")

\* _process_pdf lines 302-323: no embedded text, the subprocess is started
process_pdf_spawn(t) ==
    /\ pc[t] = "stage" /\ job_type[t] = "ocr"
    /\ proc' = [proc EXCEPT ![t] = "running"]
    /\ pc' = [pc EXCEPT ![t] = "poll"]
    /\ UNCHANGED <<keyVars, total, job_type, idx, stats, errors, result, terminal,
                   progress, content_text, doc_fields, apiVars, jobVars, streamVars, settingsVars>>

\* process_pdf_skip with _SkipDocument caught by the handler of lines 230-233.
process_pdf_skip_asFailure(t) ==
    /\ pc[t] = "poll"
    /\ proc[t] = "running"
    /\ should_skip(t)
    /\ proc' = [proc EXCEPT ![t] = "killed"]
    /\ stats' = [stats EXCEPT ![t] = Bump(@, "failed")]
    /\ errors' = [errors EXCEPT ![t] = Append(@,
           [document |-> DocName(CurrentDoc(t)), error |-> "exception"])]
    /\ pc' = [pc EXCEPT ![t] = "skipped"]
    /\ UNCHANGED <<keyVars, total, job_type, idx, result, terminal, progress,
                   content_text, doc_fields, apiVars, jobVars, streamVars, settingsVars>>

\* _process_pdf lines 326-331 with lines 226-227: the poll loop finds the
\* subprocess alive and the skip key set, kills it and raises _SkipDocument
process_pdf_skip(t) ==
    /\ pc[t] = "poll"
    /\ proc[t] = "running"
    /\ should_skip(t)
    /\ proc' = [proc EXCEPT ![t] = "killed"]
    /\ stats' = [stats EXCEPT ![t] = Bump(@, "skipped")]
    /\ pc' = [pc EXCEPT ![t] = "skipped"]
    /\ UNCHANGED <<keyVars, total, job_type, idx, errors, result, terminal, progress,
                   content_text, doc_fields, apiVars, jobVars, streamVars, settingsVars>>

\* line 228
BatchSkipClear(t) ==
    /\ pc[t] = "skipped"
    /\ clear_skip(t)
    /\ proc' = [proc EXCEPT ![t] = None]
    /\ pc' = [pc EXCEPT ![t] = "after"]
    /\ UNCHANGED <<activeTask, pauseKey, cancelKey, total, job_type, idx, stats,
                   errors, result, terminal, progress, content_text, doc_fields, apiVars, jobVars, streamVars, settingsVars>>

\* _process_pdf lines 326, 337-355: the poll loop finds the subprocess gone.
\* It exited with code 0 and recognised text ("exit0_text"), with code 0 and
\* no text on any page ("exit0_empty") or with another code ("exit_fail");
\* its text is adopted only in the first case, every other exit leaves the
\* document as it was, and the stage returns in all three.
ExitKinds == {"exit0_text", "exit0_empty", "exit_fail"}

process_pdf_finish(t, how) ==
    /\ pc[t] = "poll"
    /\ how \in ExitKinds
    /\ StageReturns(t, IF how = "exit0_text" THEN "ocr"
                       ELSE content_text[CurrentDoc(t)])

\* _process_image lines 364-378, and lines 268-278 of _run_ocr: an image, a
\* text file or any other kind; the text is replaced when something was read
\* (read = TRUE) and kept otherwise
run_ocr_other(t, mime, read) ==
    /\ pc[t] = "stage" /\ job_type[t] = "ocr"
    /\ mime \in Mimes \ {"pdf"}
    /\ StageReturns(t, IF read /\ mime = "image" THEN "ocr"
                       ELSE IF read /\ mime = "text" THEN "embedded"
                       ELSE content_text[CurrentDoc(t)])

\* _run_ai_analysis, lines 381-473, for the answer the provider gives. With
\* text the text path is taken and whatever analyze_document raises leaves
\* the stage (lines 398-399). Without text the vision path is tried: vision
\* says whether the provider is called ("call") or why not (NoVisionReasons),
\* and every exception of the path is dropped (lines 402-430). No result is a
\* RuntimeError (lines 432-433); a result is written to the document (lines
\* 435-452, 472).
run_ai_analysis(t, config, response, raw_type, raw_due, vision) ==
    /\ pc[t] = "stage" /\ job_type[t] = "ai"
    /\ vision \in {"call"} \cup NoVisionReasons
    /\ LET d == CurrentDoc(t)
           outcome == analyze_document(config, response)
           res == AIAnalysisResult(raw_type, raw_due)
           written ==
               /\ doc_fields' = [doc_fields EXCEPT ![d] = apply_classification(@, res)]
               /\ stats' = [stats EXCEPT ![t] = Bump(@, "succeeded")]
               /\ proc' = [proc EXCEPT ![t] = None]
               /\ pc' = [pc EXCEPT ![t] = "after"]
               /\ UNCHANGED <<keyVars, total, job_type, idx, errors, result, terminal,
                              progress, content_text, apiVars, jobVars, streamVars, settingsVars>>
       IN  IF content_text[d] # None
           THEN IF outcome = "result" THEN written
                ELSE StageRaises(t, IF outcome = "ValueError"
                                    THEN ValueErrorMessage(config, response)
                                    ELSE "exception")
           ELSE IF vision = "call" /\ outcome = "result" THEN written
                ELSE StageRaises(t, "No analysis possible")

\* the stage raises: update_search_vector or db.commit fails in _run_ocr
\* (before a subprocess is started, or at lines 354-355 after it has exited)
\* or in _run_ai_analysis (lines 472-473)
stage_exception(t) ==
    /\ pc[t] \in {"stage", "poll"}
    /\ StageRaises(t, "exception")

\* lines 235-238
BatchAfter(t) ==
    /\ pc[t] = "after"
    /\ stats' = [stats EXCEPT ![t] = Bump(@, "processed")]
    /\ publish_progress(t, Bump(stats[t], "processed"), DocName(CurrentDoc(t)), "progress")
    /\ idx' = [idx EXCEPT ![t] = @ + 1]
    /\ pc' = [pc EXCEPT ![t] = AfterPublish("loop", "fatal")]
    /\ UNCHANGED <<keyVars, total, job_type, errors, result, proc, terminal,
                   content_text, doc_fields, apiVars, jobVars, streamVars, settingsVars>>

\* BatchFinally without cleanup_keys (line 245).
BatchFinally_noCleanup(t) ==
    /\ pc[t] = "finally"
    /\ pc' = [pc EXCEPT ![t] = "release"]
    /\ UNCHANGED <<keyVars, total, job_type, idx, stats, errors, result, proc,
                   terminal, progress, content_text, doc_fields, apiVars, jobVars, streamVars, settingsVars>>

\* lines 243-245
BatchFinally(t) ==
    /\ pc[t] = "finally"
    /\ cleanup_keys(t)
    /\ pc' = [pc EXCEPT ![t] = "release"]
    /\ UNCHANGED <<activeTask, total, job_type, idx, stats, errors, result, proc,
                   terminal, progress, content_text, doc_fields, apiVars, jobVars, streamVars, settingsVars>>

\* BatchRelease with the return of line 183 missing: the cancelled run goes on
\* to line 256.
BatchRelease_fallsThrough(t) ==
    /\ pc[t] = "release"
    /\ set_active_task(NoTask)
    /\ pc' = [pc EXCEPT ![t] = "publish"]
    /\ UNCHANGED <<pauseKey, cancelKey, skipKey, total, job_type, idx, stats, errors,
                   result, proc, terminal, progress, content_text, doc_fields, apiVars, jobVars, streamVars, settingsVars>>

\* line 246; the return at line 183 leaves the function here
BatchRelease(t) ==
    /\ pc[t] = "release"
    /\ set_active_task(NoTask)
    /\ pc' = [pc EXCEPT ![t] = IF result[t] = "cancelled" THEN "done" ELSE "publish"]
    /\ UNCHANGED <<pauseKey, cancelKey, skipKey, total, job_type, idx, stats, errors,
                   result, proc, terminal, progress, content_text, doc_fields, apiVars, jobVars, streamVars, settingsVars>>

\* lines 248-257
BatchPublish(t) ==
    /\ pc[t] = "publish"
    /\ terminal' = [terminal EXCEPT ![t] = Append(@,
           TerminalEvent("reprocess.completed", "completed", stats[t], errors[t],
                         total[t]))]
    /\ pc' = [pc EXCEPT ![t] = AfterPublish("done", "crashed")]
    /\ UNCHANGED <<keyVars, total, job_type, idx, stats, errors, result, proc,
                   progress, content_text, doc_fields, apiVars, jobVars, streamVars, settingsVars>>

NextBatch ==
    \/ \E jt \in JobTypes : start_batch_reprocess(MaxDocs, jt)
    \/ \E t \in Runs : pause_reprocess(t)
    \/ \E t \in Runs : resume_reprocess(t)
    \/ \E t \in Runs : skip_current_document(t)
    \/ \E t \in Runs : cancel_reprocess(t)
    \/ cancel_reprocess_release
    \/ \E t \in Runs : BatchCheckActive(t)
    \/ \E t \in Runs : BatchClaim(t)
    \/ \E t \in Runs : BatchBegin(t)
    \/ \E t \in Runs : BatchLoop(t)
    \/ \E t \in Runs : BatchCancelCleanup(t)
    \/ \E t \in Runs : BatchCancelRelease(t)
    \/ \E t \in Runs : BatchPause(t)
    \/ \E t \in Runs : BatchPausedEvent(t)
    \/ \E t \in Runs : BatchSleep(t)
    \/ \E t \in Runs : BatchResume(t)
    \/ \E t \in Runs : BatchDocMissing(t)
    \/ \E t \in Runs : BatchFileMissing(t)
    \/ \E t \in Runs : BatchDocFound(t)
    \/ \E t \in Runs : BatchFatal(t)
    \/ \E t \in Runs : BatchClearSkip(t)
    \/ \E t \in Runs : process_pdf_fast(t)
    \/ \E t \in Runs : process_pdf_spawn(t)
    \/ \E t \in Runs : process_pdf_skip(t)
    \/ \E t \in Runs : BatchSkipClear(t)
    \/ \E t \in Runs, how \in ExitKinds : process_pdf_finish(t, how)
    \/ \E t \in Runs, mime \in Mimes, read \in BOOLEAN : run_ocr_other(t, mime, read)
    \/ \E t \in Runs : run_ai_analysis(t, "ok", "ok", "other", None, "call")
    \/ \E t \in Runs : stage_exception(t)
    \/ \E t \in Runs : BatchAfter(t)
    \/ \E t \in Runs : BatchFinally(t)
    \/ \E t \in Runs : BatchRelease(t)
    \/ \E t \in Runs : BatchPublish(t)

SpecBatch == Init /\ [][NextBatch]_vars

\* ---- one run under the control endpoints ----------------------------------
\* The steps of the batch task t, one per position of its code.
BatchStep(t) ==
    \/ BatchCheckActive(t)
    \/ BatchClaim(t)
    \/ BatchBegin(t)
    \/ BatchLoop(t)
    \/ BatchCancelCleanup(t)
    \/ BatchCancelRelease(t)
    \/ BatchPause(t)
    \/ BatchPausedEvent(t)
    \/ BatchSleep(t)
    \/ BatchResume(t)
    \/ BatchDocMissing(t)
    \/ BatchFileMissing(t)
    \/ BatchDocFound(t)
    \/ BatchFatal(t)
    \/ BatchClearSkip(t)
    \/ process_pdf_fast(t)
    \/ process_pdf_spawn(t)
    \/ process_pdf_skip(t)
    \/ BatchSkipClear(t)
    \/ \E how \in ExitKinds : process_pdf_finish(t, how)
    \/ \E mime \in Mimes, read \in BOOLEAN : run_ocr_other(t, mime, read)
    \/ run_ai_analysis(t, "ok", "ok", "other", None, "call")
    \/ stage_exception(t)
    \/ BatchAfter(t)
    \/ BatchFinally(t)
    \/ BatchRelease(t)
    \/ BatchPublish(t)

\* The state after POST /reprocess has enqueued the first task (imports.py:
\* 160-171) for a filter matching MaxDocs documents: start_batch_reprocess
\* applied to Init, with the request not counted in apiCalls.
BatchStarted ==
    /\ activeTask = NoTask
    /\ pauseKey  = [t \in Runs |-> None]
    /\ cancelKey = [t \in Runs |-> None]
    /\ skipKey   = [t \in Runs |-> None]
    /\ pc        = [t \in Runs |-> IF t = 1 THEN "queued" ELSE "unused"]
    /\ total     = [t \in Runs |-> IF t = 1 THEN MaxDocs ELSE 0]
    /\ job_type  \in [Runs -> JobTypes]
    /\ \A t \in Runs : t # 1 => job_type[t] = "ocr"
    /\ idx       = [t \in Runs |-> 0]
    /\ stats     = [t \in Runs |-> ZeroStats]
    /\ errors    = [t \in Runs |-> <<>>]
    /\ result    = [t \in Runs |-> None]
    /\ proc      = [t \in Runs |-> None]
    /\ terminal  = [t \in Runs |-> <<>>]
    /\ progress  = [t \in Runs |-> NoProgress]
    /\ content_text = [d \in Docs |-> "orig"]
    /\ doc_fields = [d \in Docs |-> NoFields]
    /\ apiCalls  = 0
    /\ resp      = [code |-> 200, task_id |-> 1]
    /\ cancelReq = NoTask
    /\ activeReq = FALSE
    /\ stream = NoStream
    /\ channel = <<>>
    /\ yielded = {}
    /\ SettingsInit
    /\ skipReq = [t \in Runs |-> [doc |-> 0, at |-> None]]
    /\ cancelledAt = [t \in Runs |-> <<>>]
    /\ rivals = [t \in Runs |-> {}]

InitStarted == BatchStarted /\ JobInit /\ document = NewDocument

NextControl ==
    \/ \E t \in Runs : pause_reprocess(t)
    \/ \E t \in Runs : resume_reprocess(t)
    \/ \E t \in Runs : skip_current_document(t)
    \/ \E t \in Runs : cancel_reprocess(t)
    \/ cancel_reprocess_release
    \/ \E t \in Runs : BatchStep(t)

\* The worker that runs the task keeps running: a task that can take a step
\* eventually takes one.
SpecControl ==
    InitStarted /\ [][NextControl]_vars /\ WF_vars(\E t \in Runs : BatchStep(t))

\* ---- Job Lifecycle Manager: DocManFuTask (app/tasks/base.py) ---------------
CELERY_TASK_MAX_RETRIES == 3

Min(a, b) == IF a < b THEN a ELSE b

\* update_job_progress, lines 42-55; status is None when the caller passes
\* none; a row that is gone is left alone (lines 46-48)
update_job_progress(j, percent, status, time) ==
    IF ~j.exists THEN j ELSE
    LET j1 == [j EXCEPT !.progress = Min(percent, 100)]
        j2 == IF status # None THEN [j1 EXCEPT !.status = status] ELSE j1
    IN  IF status = "processing" /\ j2.started_at = NoTime
        THEN [j2 EXCEPT !.started_at = time]
        ELSE j2

\* mark_job_started, lines 71-81
mark_job_started(j, time) ==
    IF ~j.exists THEN j ELSE
    [j EXCEPT !.status = "processing", !.started_at = time, !.progress = 0]

\* mark_job_completed, lines 97-109
mark_job_completed(j, result_data, time) ==
    IF ~j.exists THEN j ELSE
    LET j1 == [j EXCEPT !.status = "completed", !.progress = 100, !.completed_at = time]
    IN  IF result_data # None THEN [j1 EXCEPT !.result_data = result_data] ELSE j1

\* mark_job_failed, lines 126-136
mark_job_failed(j, error_message, time) ==
    IF ~j.exists THEN j ELSE
    [j EXCEPT !.status = "failed", !.error_message = error_message, !.completed_at = time]

\* on_retry putting the row back to pending.
on_retry_resets(j) ==
    IF ~j.exists THEN j
    ELSE [j EXCEPT !.error_message = "Retrying: exc", !.status = "pending", !.progress = 0]

\* on_retry, lines 162-173
on_retry(j) ==
    IF ~j.exists THEN j ELSE [j EXCEPT !.error_message = "Retrying: exc"]

\* ---- process_ocr (app/tasks/ocr.py:25-107) and Celery around it -------------
jobFrame == <<batchVars, streamVars, settingsVars, retries, revoked, cancelling, cancels, document, followups,
              ai_config, ai_result, last_call, transport_up>>

\* jobFrame without the record of the last external call
ocrFrame == <<batchVars, streamVars, settingsVars, retries, revoked, cancelling, cancels, document, followups,
              ai_config, ai_result, transport_up>>

\* what the task keeps of the classification it runs (ai_analysis.py:57-59)
aiLocals == <<ai_config, ai_result, last_call>>

\* Lifecycle without the checks for a missing row (base.py:47-49, 76-77,
\* 102-103, 131-132): the method fails on the row it did not find.
Lifecycle_rowRequired(newjob, event, to) ==
    /\ job' = newjob
    /\ now' = now + 1
    /\ IF job.exists
       THEN /\ published' = [event |-> event, flip |-> 1 - published.flip,
                            delivered |-> transport_up]
            /\ jpc' = AfterPublish(to, "raised")
       ELSE /\ published' = published
            /\ jpc' = "raised"

\* One call of mark_job_started / update_job_progress / mark_job_completed /
\* mark_job_failed that leaves the row as newjob: after the commit the method
\* publishes its event (base.py:56-67, 83-93, 111-122, 138-149) and the task
\* goes on to position to when publish_event returns; a method that finds no
\* row returns before it publishes.
Lifecycle(newjob, event, to) ==
    /\ job' = newjob
    /\ now' = now + 1
    /\ IF job.exists
       THEN /\ published' = [event |-> event, flip |-> 1 - published.flip,
                            delivered |-> transport_up]
            /\ jpc' = AfterPublish(to, "raised")
       ELSE /\ published' = published
            /\ jpc' = to

\* the dispatcher stores the task id after delay() (app/api/documents.py:277-279)
store_task_id ==
    /\ job.exists
    /\ job.celery_task_id = None
    /\ job' = [job EXCEPT !.celery_task_id = "task"]
    /\ UNCHANGED <<jobFrame, jpc, now, published>>

\* the row is removed out of band (retention)
job_deleted ==
    /\ job.exists
    /\ job' = [job EXCEPT !.exists = FALSE]
    /\ UNCHANGED <<jobFrame, jpc, now, published>>

\* a worker takes the task (first delivery or a retry); a revoked id is dropped
task_received ==
    /\ jpc = "queued"
    /\ jpc' = IF revoked THEN "revoked" ELSE "start"
    /\ UNCHANGED <<jobFrame, job, now, published>>

\* line 40
ocr_started ==
    /\ jpc = "start"
    /\ Lifecycle(mark_job_started(job, now), "job.started", "doc")
    /\ last_call' = NoCall
    /\ UNCHANGED ocrFrame

\* lines 45-48
ocr_document_missing ==
    /\ jpc = "doc"
    /\ Lifecycle(mark_job_failed(job, "Document not found", now), "job.failed", "returned")
    /\ UNCHANGED jobFrame

\* a call of update_job_progress(job_id, percent, JobStatus.processing) that
\* takes the task from position at to position to
Phase(at, percent, to) ==
    /\ jpc = at
    /\ Lifecycle(update_job_progress(job, percent, "processing", now), "job.progress", to)
    /\ UNCHANGED jobFrame

\* line 51
ocr_phase1 == Phase("doc", 10, "file")

\* lines 53-55
ocr_file_missing ==
    /\ jpc = "file"
    /\ Lifecycle(mark_job_failed(job, "File not found", now), "job.failed", "returned")
    /\ UNCHANGED jobFrame

\* line 59
ocr_phase2 == Phase("file", 20, "ocr")

\* lines 61-63 with _ocr_image, lines 110-127
ocr_image ==
    /\ jpc = "ocr"
    /\ Lifecycle(update_job_progress(job, 80, "processing", now), "job.progress", "phase5")
    /\ last_call' = [path |-> "tesseract", outcome |-> "ok"]
    /\ UNCHANGED ocrFrame

\* what the pages of a PDF hold before extraction: embedded text on some
\* page, or none on any
PdfPages == {"text", "blank"}

\* _ocr_pdf, lines 133-163: whatever the pages hold, ocrmypdf.ocr is called
\* on the file first (line 141); it returned ("ok") or, finding text while
\* OCR_SKIP_TEXT is off, raised PriorOcrFoundError ("prior_ocr")
ocr_pdf_done(outcome, pages) ==
    /\ jpc = "ocr"
    /\ pages \in PdfPages
    /\ outcome = "prior_ocr" => pages = "text"
    /\ Lifecycle(update_job_progress(job, 50, "processing", now), "job.progress", "extract")
    /\ last_call' = [path |-> "ocrmypdf", outcome |-> outcome, pages |-> pages]
    /\ UNCHANGED ocrFrame

\* the messages of lines 156 and 160
RejectMessage(outcome) ==
    IF outcome = "encrypted" THEN "PDF is encrypted and cannot be processed"
    ELSE "Invalid input PDF"

\* ocr_pdf_rejected without the handlers of lines 154-161: the exception of
\* ocrmypdf leaves the task like any other.
ocr_pdf_rejected_raised(outcome) ==
    /\ jpc = "ocr"
    /\ jpc' = "raised"
    /\ last_call' = [path |-> "ocrmypdf", outcome |-> outcome]
    /\ UNCHANGED <<ocrFrame, job, now, published>>

\* _ocr_pdf, lines 154-161 with lines 68-70: EncryptedPdfError ("encrypted")
\* or InputFileError ("invalid") fails the job and the task returns
ocr_pdf_rejected(outcome) ==
    /\ jpc = "ocr"
    /\ Lifecycle(mark_job_failed(job, RejectMessage(outcome), now), "job.failed", "returned")
    /\ last_call' = [path |-> "ocrmypdf", outcome |-> outcome]
    /\ UNCHANGED ocrFrame

\* _ocr_pdf, line 167
ocr_pdf_extract == Phase("extract", 60, "extracted")

\* _ocr_pdf, line 178
ocr_pdf_extracted == Phase("extracted", 80, "phase5")

\* line 73
ocr_phase5 == Phase("phase5", 90, "commit")

\* lines 75-82: the document row gets the extracted text, None when nothing
\* was extracted
ocr_commit(extracted_text) ==
    /\ jpc = "commit"
    /\ document' = [document EXCEPT !.content_text =
                       IF extracted_text # "" THEN extracted_text ELSE None]
    /\ jpc' = "complete"
    /\ UNCHANGED <<batchVars, streamVars, settingsVars, retries, revoked, cancelling, cancels, followups,
                   aiLocals, transport_up, job, now, published>>

\* lines 85-91
ocr_completed ==
    /\ jpc = "complete"
    /\ Lifecycle(mark_job_completed(job, "ocr_result", now), "job.completed", "dispatch")
    /\ UNCHANGED jobFrame

\* what _dispatch_ai_analysis (lines 205-227) gets done before it returns:
\* everything, nothing (the insert fails) or the row without the task (delay
\* fails); its handler swallows every exception
DispatchOutcomes == {"dispatched", "insert_failed", "delay_failed"}

\* ocr_dispatch without the handler of lines 225-227: a failure to create or
\* dispatch the classification job leaves process_ocr as an exception.
ocr_dispatch_raises(ai_provider_set, outcome) ==
    /\ jpc = "dispatch"
    /\ followups' =
         IF ~ai_provider_set THEN [followups EXCEPT !.provider = "unset"]
         ELSE [created    |-> followups.created + (IF outcome # "insert_failed" THEN 1 ELSE 0),
               dispatched |-> followups.dispatched + (IF outcome = "dispatched" THEN 1 ELSE 0),
               provider   |-> "set"]
    /\ jpc' = IF ai_provider_set /\ outcome # "dispatched" THEN "raised" ELSE "returned"
    /\ UNCHANGED <<batchVars, streamVars, settingsVars, retries, revoked, cancelling, cancels, document,
                   aiLocals, transport_up, job, now, published>>

\* lines 99-101: the follow-on classification job, when settings.AI_PROVIDER
\* names a provider
ocr_dispatch(ai_provider_set, outcome) ==
    /\ jpc = "dispatch"
    /\ followups' =
         IF ~ai_provider_set THEN [followups EXCEPT !.provider = "unset"]
         ELSE [created    |-> followups.created + (IF outcome # "insert_failed" THEN 1 ELSE 0),
               dispatched |-> followups.dispatched + (IF outcome = "dispatched" THEN 1 ELSE 0),
               provider   |-> "set"]
    /\ jpc' = "returned"
    /\ UNCHANGED <<batchVars, streamVars, settingsVars, retries, revoked, cancelling, cancels, document,
                   aiLocals, transport_up, job, now, published>>

\* lines 103-105: an exception leaves the task: any other error of ocrmypdf
\* (line 141), or a database error at lines 77-82
ocr_raises ==
    /\ jpc \in {"ocr", "commit"}
    /\ jpc' = "raised"
    /\ last_call' = IF jpc = "ocr" THEN [path |-> "ocrmypdf", outcome |-> "error"]
                    ELSE last_call
    /\ UNCHANGED <<ocrFrame, job, now, published>>

\* autoretry_for = (Exception,) with retries left (base.py:25-27): on_retry,
\* then the task goes back to the queue
celery_retry ==
    /\ jpc = "raised"
    /\ retries < CELERY_TASK_MAX_RETRIES
    /\ job' = on_retry(job)
    /\ retries' = retries + 1
    /\ jpc' = "queued"
    /\ UNCHANGED <<batchVars, streamVars, settingsVars, revoked, cancelling, cancels, now, document, followups,
                   aiLocals, transport_up, published>>

\* retries exhausted: on_failure, base.py:155-160
celery_failure ==
    /\ jpc = "raised"
    /\ retries >= CELERY_TASK_MAX_RETRIES
    /\ Lifecycle(mark_job_failed(job, "exc", now), "job.failed", "returned")
    /\ UNCHANGED jobFrame

\* ---- POST /api/jobs/<id>/cancel (app/api/jobs.py:230-277) -------------------
Running == {"start", "doc", "file", "ocr", "extract", "extracted", "phase5",
            "commit", "complete", "dispatch", "raised"}

\* lines 237-255: the row is loaded, its status is pending or processing, and
\* the task is revoked when the row has a task id
cancel_job_check ==
    /\ cancels < MaxCancels
    /\ ~cancelling
    /\ job.exists
    /\ job.status \in {"pending", "processing"}
    /\ cancels' = cancels + 1
    /\ cancelling' = TRUE
    /\ revoked' = (revoked \/ job.celery_task_id # None)
    /\ UNCHANGED <<batchVars, streamVars, settingsVars, job, jpc, retries, now, document, followups, aiLocals,
                   transport_up, published>>

\* lines 257-260
cancel_job_commit ==
    /\ cancelling
    /\ job.exists
    /\ cancelling' = FALSE
    /\ job' = [job EXCEPT !.status = "failed", !.error_message = "Cancelled by user",
                          !.completed_at = now]
    /\ now' = now + 1
    /\ UNCHANGED <<batchVars, streamVars, settingsVars, jpc, retries, revoked, cancels, document, followups,
                   aiLocals, transport_up, published>>

\* revoke(terminate=True, signal="SIGTERM") reaches the worker that runs the task
task_terminated ==
    /\ revoked
    /\ jpc \in Running
    /\ jpc' = "terminated"
    /\ UNCHANGED <<jobFrame, job, now, published>>

NextJob ==
    \/ store_task_id
    \/ job_deleted
    \/ task_received
    \/ ocr_started
    \/ ocr_document_missing
    \/ ocr_phase1
    \/ ocr_file_missing
    \/ ocr_phase2
    \/ ocr_image
    \/ \E outcome \in {"ok", "prior_ocr"}, pages \in PdfPages : ocr_pdf_done(outcome, pages)
    \/ \E outcome \in {"encrypted", "invalid"} : ocr_pdf_rejected(outcome)
    \/ ocr_pdf_extract
    \/ ocr_pdf_extracted
    \/ ocr_phase5
    \/ \E text \in {"", "ocr"} : ocr_commit(text)
    \/ ocr_completed
    \/ \E set \in BOOLEAN, outcome \in DispatchOutcomes : ocr_dispatch(set, outcome)
    \/ ocr_raises
    \/ celery_retry
    \/ celery_failure
    \/ cancel_job_check
    \/ cancel_job_commit
    \/ task_terminated

SpecJob == Init /\ [][NextJob]_vars

\* ---- process_ai_analysis (app/tasks/ai_analysis.py:17-228) -----------------
\* what is recorded of a call
Call(path, config, response) ==
    [path |-> path, outcome |-> IF config # "ok" THEN "config" ELSE response]

\* what is recorded of a call that came back with a JSON object: also the
\* document_type of the answer
Answer(path, raw_type) ==
    [path |-> path, outcome |-> "ok", document_type |-> raw_type]

aiFrame == <<batchVars, streamVars, settingsVars, retries, revoked, cancelling, cancels, document, followups,
             transport_up>>

\* line 32; the locals of lines 57-59 do not exist yet
ai_started ==
    /\ jpc = "start"
    /\ Lifecycle(mark_job_started(job, now), "job.started", "ai_doc")
    /\ ai_config' = None
    /\ ai_result' = NoResult
    /\ last_call' = NoCall
    /\ UNCHANGED aiFrame

\* lines 37-40
ai_document_missing ==
    /\ jpc = "ai_doc"
    /\ Lifecycle(mark_job_failed(job, "Document not found", now), "job.failed", "returned")
    /\ UNCHANGED jobFrame

\* line 43
ai_phase1 == Phase("ai_doc", 10, "ai_prep")

\* line 49
ai_phase2 == Phase("ai_prep", 20, "ai_load")

\* ai_load trying the vision path first.
ai_load_visionFirst(config) ==
    /\ jpc = "ai_load"
    /\ ai_config' = config
    /\ ai_result' = NoResult
    /\ last_call' = NoCall
    /\ jpc' = "ai_vision"
    /\ UNCHANGED <<aiFrame, job, now, published>>

\* lines 57-62 and 78: the configuration is read and the path is chosen, the
\* text path when document.content_text is non-empty
ai_load(config) ==
    /\ jpc = "ai_load"
    /\ ai_config' = config
    /\ ai_result' = NoResult
    /\ last_call' = NoCall
    /\ jpc' = IF document.content_text # None THEN "ai_text" ELSE "ai_vision"
    /\ UNCHANGED <<aiFrame, job, now, published>>

\* lines 68-71: analyze_document returns a result; line 78 then finds
\* result set and the vision path is not taken
ai_text_result(response, raw_type, raw_due) ==
    /\ jpc = "ai_text"
    /\ analyze_document(ai_config, response) = "result"
    /\ ai_result' = AIAnalysisResult(raw_type, raw_due)
    /\ last_call' = Answer("text", raw_type)
    /\ jpc' = "ai_check"
    /\ UNCHANGED <<aiFrame, ai_config, job, now, published>>

\* ai_text_value_error with the handler of lines 72-74 removed: the ValueError
\* reaches lines 220-223 and leaves the task.
ai_text_value_error_reraised(response) ==
    /\ jpc = "ai_text"
    /\ analyze_document(ai_config, response) = "ValueError"
    /\ last_call' = Call("text", ai_config, response)
    /\ jpc' = "raised"
    /\ UNCHANGED <<aiFrame, ai_config, ai_result, job, now, published>>

\* lines 72-74: a ValueError of analyze_document fails the job and the task
\* returns
ai_text_value_error(response) ==
    /\ jpc = "ai_text"
    /\ analyze_document(ai_config, response) = "ValueError"
    /\ last_call' = Call("text", ai_config, response)
    /\ Lifecycle(mark_job_failed(job, ValueErrorMessage(ai_config, response), now),
                 "job.failed", "returned")
    /\ UNCHANGED <<aiFrame, ai_config, ai_result>>

\* lines 69-71 with 224-226: any other exception of analyze_document leaves
\* the task
ai_text_raises(response) ==
    /\ jpc = "ai_text"
    /\ analyze_document(ai_config, response) = "Exception"
    /\ last_call' = Call("text", ai_config, response)
    /\ jpc' = "raised"
    /\ UNCHANGED <<aiFrame, ai_config, ai_result, job, now, published>>

ai_vision_skipped(reason) ==
    /\ jpc = "ai_vision"
    /\ last_call' = [path |-> "vision", outcome |-> reason]
    /\ jpc' = "ai_check"
    /\ UNCHANGED <<aiFrame, ai_config, ai_result, job, now, published>>

\* lines 107-111
ai_vision_result(response, raw_type, raw_due) ==
    /\ jpc = "ai_vision"
    /\ analyze_document(ai_config, response) = "result"
    /\ ai_result' = AIAnalysisResult(raw_type, raw_due)
    /\ last_call' = Answer("vision", raw_type)
    /\ jpc' = "ai_check"
    /\ UNCHANGED <<aiFrame, ai_config, job, now, published>>

\* lines 112-114
ai_vision_value_error(response) ==
    /\ jpc = "ai_vision"
    /\ analyze_document(ai_config, response) = "ValueError"
    /\ last_call' = Call("vision", ai_config, response)
    /\ Lifecycle(mark_job_failed(job, ValueErrorMessage(ai_config, response), now),
                 "job.failed", "returned")
    /\ UNCHANGED <<aiFrame, ai_config, ai_result>>

\* lines 115-120: any other exception of the vision call is logged and dropped
ai_vision_swallowed(response) ==
    /\ jpc = "ai_vision"
    /\ analyze_document(ai_config, response) = "Exception"
    /\ last_call' = Call("vision", ai_config, response)
    /\ jpc' = "ai_check"
    /\ UNCHANGED <<aiFrame, ai_config, ai_result, job, now, published>>

\* lines 122-127
ai_no_result ==
    /\ jpc = "ai_check"
    /\ ai_result = NoResult
    /\ Lifecycle(mark_job_failed(job, "No analysis possible", now), "job.failed", "returned")
    /\ UNCHANGED jobFrame

\* line 129
ai_phase60 ==
    /\ ai_result # NoResult
    /\ Phase("ai_check", 60, "ai_p70")

\* line 139
ai_phase70 == Phase("ai_p70", 70, "ai_p80")

\* line 163
ai_phase80 == Phase("ai_p80", 80, "ai_commit")

\* lines 141-203: the fields set at lines 141-160 reach the row with the
\* commit of line 184
ai_commit ==
    /\ jpc = "ai_commit"
    /\ document' = apply_classification(document, ai_result)
    /\ jpc' = "ai_p90"
    /\ UNCHANGED <<batchVars, streamVars, settingsVars, retries, revoked, cancelling, cancels, followups,
                   aiLocals, transport_up, job, now, published>>

\* lines 166-184, 203 with 224-226: a database error leaves the task
ai_raises ==
    /\ jpc = "ai_commit"
    /\ jpc' = "raised"
    /\ UNCHANGED <<jobFrame, job, now, published>>

\* line 205
ai_phase90 == Phase("ai_p90", 90, "ai_complete")

\* lines 208-217
ai_completed ==
    /\ jpc = "ai_complete"
    /\ Lifecycle(mark_job_completed(job, "ai_result", now), "job.completed", "returned")
    /\ UNCHANGED jobFrame

\* The documents a classification can find: with or without extracted text;
\* never classified, or classified as a bill or invoice that is unpaid, paid
\* (the user's action stamps bill_paid_at) or dismissed.
ClassifiedBefore ==
    {[NewDocument EXCEPT !.content_text = text] : text \in {None, "text"}}
    \cup
    {[content_text |-> text, document_type |-> type, bill_status |-> status,
      bill_due_date |-> due, bill_paid_at |-> IF status = "paid" THEN 1 ELSE NoTime] :
        text \in {None, "text"}, type \in {"bill", "invoice"},
        status \in {"unpaid", "paid", "dismissed"}, due \in {"2026-11-15"}}

\* a classification job is queued for a new document with or without
\* extracted text
InitAi ==
    /\ BatchInit
    /\ JobQueued("ai_analysis")
    /\ document \in {[NewDocument EXCEPT !.content_text = text] : text \in {None, "text"}}

\* The steps of the classification task and of Celery around it.
AiStep ==
    \/ task_received
    \/ ai_started
    \/ ai_document_missing
    \/ ai_phase1
    \/ ai_phase2
    \/ \E config \in AiConfigs : ai_load(config)
    \/ \E response \in Responses, raw_type \in RawTypes, raw_due \in RawDueDates :
           ai_text_result(response, raw_type, raw_due)
    \/ \E response \in Responses : ai_text_value_error(response)
    \/ \E response \in Responses : ai_text_raises(response)
    \/ \E reason \in NoVisionReasons : ai_vision_skipped(reason)
    \/ \E response \in Responses, raw_type \in RawTypes, raw_due \in RawDueDates :
           ai_vision_result(response, raw_type, raw_due)
    \/ \E response \in Responses : ai_vision_value_error(response)
    \/ \E response \in Responses : ai_vision_swallowed(response)
    \/ ai_no_result
    \/ ai_phase60
    \/ ai_phase70
    \/ ai_phase80
    \/ ai_commit
    \/ ai_raises
    \/ ai_phase90
    \/ ai_completed
    \/ celery_retry
    \/ celery_failure

NextAi ==
    \/ job_deleted
    \/ AiStep

SpecAi == InitAi /\ [][NextAi]_vars

\* ---- the event transport failing (app/core/events.py:27-30) ----------------
outageFrame == <<batchVars, streamVars, settingsVars, job, jpc, retries, revoked, now, cancelling, cancels,
                 published, document, followups, ai_config, ai_result, last_call>>

\* get_redis_client or client.publish starts to raise
transport_fails ==
    /\ transport_up
    /\ transport_up' = FALSE
    /\ UNCHANGED outageFrame

\* the transport takes messages again
transport_recovers ==
    /\ ~transport_up
    /\ transport_up' = TRUE
    /\ UNCHANGED outageFrame

\* The steps of the extraction task and of Celery around it.
JobStep ==
    \/ task_received
    \/ ocr_started
    \/ ocr_document_missing
    \/ ocr_phase1
    \/ ocr_file_missing
    \/ ocr_phase2
    \/ ocr_image
    \/ \E outcome \in {"ok", "prior_ocr"}, pages \in PdfPages : ocr_pdf_done(outcome, pages)
    \/ \E outcome \in {"encrypted", "invalid"} : ocr_pdf_rejected(outcome)
    \/ ocr_pdf_extract
    \/ ocr_pdf_extracted
    \/ ocr_phase5
    \/ \E text \in {"", "ocr"} : ocr_commit(text)
    \/ ocr_completed
    \/ \E set \in BOOLEAN, outcome \in DispatchOutcomes : ocr_dispatch(set, outcome)
    \/ ocr_raises
    \/ celery_retry
    \/ celery_failure

\* no extraction job has been created: no row, no task in the queue
JobAbsent ==
    /\ job = [NewJob EXCEPT !.exists = FALSE]
    /\ jpc = "unused"
    /\ retries = 0
    /\ revoked = FALSE
    /\ now = 1
    /\ cancelling = FALSE
    /\ cancels = 0
    /\ published = NoEvent
    /\ transport_up = TRUE
    /\ followups = NoFollowups
    /\ ai_config = None
    /\ ai_result = NoResult
    /\ last_call = NoCall

\* Two scenes: a batch run has been enqueued and no extraction job exists, or
\* an upload has queued one extraction job and no batch run exists.
InitOutage ==
    \/ BatchStarted /\ JobAbsent /\ document = NewDocument
    \/ BatchInit /\ JobInit /\ document = NewDocument

NextOutage ==
    \/ transport_fails
    \/ transport_recovers
    \/ NextControl
    \/ JobStep

SpecOutage == InitOutage /\ [][NextOutage]_vars

\* ---- process_file_organization (app/tasks/file_organization.py:13-70) ------
\* line 27
fo_started ==
    /\ jpc = "start"
    /\ Lifecycle(mark_job_started(job, now), "job.started", "fo_doc")
    /\ UNCHANGED jobFrame

\* lines 34-37
fo_document_missing ==
    /\ jpc = "fo_doc"
    /\ Lifecycle(mark_job_failed(job, "Document not found", now), "job.failed", "returned")
    /\ UNCHANGED jobFrame

\* line 40
fo_phase1 == Phase("fo_doc", 10, "fo_name")

\* fo_no_name without the call of mark_job_failed (line 43): the task just
\* returns.
fo_no_name_unmarked ==
    /\ jpc = "fo_name"
    /\ jpc' = "returned"
    /\ UNCHANGED <<jobFrame, job, now, published>>

\* lines 42-44: the document has no ai_generated_name
fo_no_name ==
    /\ jpc = "fo_name"
    /\ Lifecycle(mark_job_failed(job, "No AI-generated name", now), "job.failed", "returned")
    /\ UNCHANGED jobFrame

\* line 47
fo_phase2 == Phase("fo_name", 50, "fo_verify")

\* line 55
fo_phase3 == Phase("fo_verify", 80, "fo_complete")

\* lines 58-64
fo_completed ==
    /\ jpc = "fo_complete"
    /\ Lifecycle(mark_job_completed(job, "fo_result", now), "job.completed", "returned")
    /\ UNCHANGED jobFrame

\* lines 66-68: a database error at line 33 leaves the task
fo_raises ==
    /\ jpc = "fo_doc"
    /\ jpc' = "raised"
    /\ UNCHANGED <<jobFrame, job, now, published>>

\* The steps of the file-organization task and of Celery around it.
FoStep ==
    \/ task_received
    \/ fo_started
    \/ fo_document_missing
    \/ fo_phase1
    \/ fo_no_name
    \/ fo_phase2
    \/ fo_phase3
    \/ fo_completed
    \/ fo_raises
    \/ celery_retry
    \/ celery_failure

\* ---- every task of the queue, run by a worker that keeps running ----------
\* one job of any type is queued, for a document with or without text
InitLive ==
    /\ BatchInit
    /\ \E type \in JobType : JobQueued(type)
    /\ document \in {[NewDocument EXCEPT !.content_text = text] : text \in {None, "text"}}

\* Celery runs the task registered for the job's type
NextLive ==
    \/ job.job_type = "ocr" /\ JobStep
    \/ job.job_type = "ai_analysis" /\ AiStep
    \/ job.job_type = "file_organization" /\ FoStep

\* the worker keeps running: the task's next statement is executed, and a
\* task put back by autoretry is delivered again
SpecLive == InitLive /\ [][NextLive]_vars /\ WF_vars(NextLive)

\* ---- a worker that dies, keys that expire, and the status endpoint --------
\* a run whose worker process is gone: Celery noticed it and stored FAILURE
\* ("lost"), or the whole worker went down and the stored state stays as it
\* was ("vanished")
Lost == {"lost", "vanished"}

\* a run that executes no code any more
Stopped == Lost \cup {"done"}

\* AsyncResult(task_id).state with task_track_started (celery_app.py:17)
TaskState(t) ==
    IF pc[t] \in {"unused", "queued"} THEN "PENDING"
    ELSE IF pc[t] = "done" THEN "SUCCESS"
    ELSE IF pc[t] \in {"lost", "crashed"} THEN "FAILURE"
    ELSE "STARTED"

\* the worker process dies while it executes the task, at any line after the
\* check of line 112; nothing of lines 243-246 runs
worker_lost(t, noticed) ==
    /\ pc[t] \notin {"unused", "queued"} \cup Stopped
    /\ pc' = [pc EXCEPT ![t] = IF noticed THEN "lost" ELSE "vanished"]
    /\ UNCHANGED <<keyVars, total, job_type, idx, stats, errors, result, proc,
                   terminal, progress, content_text, doc_fields, apiVars, jobVars, streamVars, settingsVars>>

\* active_task_expires for a marker written without ex (line 94).
active_task_expires_noTtl ==
    /\ FALSE
    /\ UNCHANGED vars

\* Redis drops batch_reprocess:active_task 86400 s after set_active_task
\* wrote it (line 94). A run is taken to be shorter than that, so the marker
\* expires only after the run that wrote it has stopped.
active_task_expires ==
    /\ activeTask # NoTask
    /\ pc[activeTask] \in Stopped
    /\ activeTask' = NoTask
    /\ UNCHANGED <<pauseKey, cancelKey, skipKey, taskVars, content_text, doc_fields,
                   apiVars, jobVars, streamVars, settingsVars>>

\* Redis drops the pause, cancel and skip key of a run 86400 s after they
\* were written (lines 42, 48, 60), on the same assumption
control_keys_expire(t) ==
    /\ pc[t] \in Stopped
    /\ pauseKey[t] # None \/ cancelKey[t] # None \/ skipKey[t] # None
    /\ cleanup_keys(t)
    /\ UNCHANGED <<activeTask, taskVars, content_text, doc_fields, apiVars, jobVars, streamVars, settingsVars>>

\* GET /reprocess/active (imports.py:230-253), lines 237-244: the marker
\* names a task whose stored state is SUCCESS, FAILURE or REVOKED. The other
\* two answers of the endpoint write nothing.
get_active_reprocess ==
    /\ ~activeReq
    /\ get_active_task # NoTask
    /\ TaskState(get_active_task) \in {"SUCCESS", "FAILURE", "REVOKED"}
    /\ activeReq' = TRUE
    /\ UNCHANGED <<keyVars, taskVars, content_text, doc_fields, apiCalls, resp,
                   cancelReq, skipReq, cancelledAt, rivals, jobVars, streamVars, settingsVars>>

\* ... lines 248-249: set_active_task(None), whatever the marker names now
get_active_reprocess_cleanup ==
    /\ activeReq
    /\ set_active_task(NoTask)
    /\ activeReq' = FALSE
    /\ UNCHANGED <<pauseKey, cancelKey, skipKey, taskVars, content_text, doc_fields,
                   apiCalls, resp, cancelReq, skipReq, cancelledAt, rivals, jobVars, streamVars, settingsVars>>

\* The first run has passed line 135 and holds the marker. Before a worker
\* took the task the admin has paused it, or cancelled it, or both, or
\* neither (the endpoints accept the id of a queued task).
InitClaimed ==
    /\ activeTask = 1
    /\ pauseKey  \in [Runs -> {None, "1"}]
    /\ cancelKey \in [Runs -> {None, "1"}]
    /\ \A t \in Runs : t # 1 => pauseKey[t] = None /\ cancelKey[t] = None
    /\ skipKey   = [t \in Runs |-> None]
    /\ pc        = [t \in Runs |-> IF t = 1 THEN "begin" ELSE "unused"]
    /\ total     = [t \in Runs |-> IF t = 1 THEN MaxDocs ELSE 0]
    /\ job_type  = [t \in Runs |-> "ai"]
    /\ idx       = [t \in Runs |-> 0]
    /\ stats     = [t \in Runs |-> ZeroStats]
    /\ errors    = [t \in Runs |-> <<>>]
    /\ result    = [t \in Runs |-> None]
    /\ proc      = [t \in Runs |-> None]
    /\ terminal  = [t \in Runs |-> <<>>]
    /\ progress  = [t \in Runs |-> NoProgress]
    /\ content_text = [d \in Docs |-> "orig"]
    /\ doc_fields = [d \in Docs |-> NoFields]
    /\ apiCalls  = 0
    /\ resp      = [code |-> 200, task_id |-> 1]
    /\ cancelReq = NoTask
    /\ activeReq = FALSE
    /\ stream = NoStream
    /\ channel = <<>>
    /\ yielded = {}
    /\ SettingsInit
    /\ skipReq = [t \in Runs |-> [doc |-> 0, at |-> None]]
    /\ cancelledAt = [t \in Runs |-> IF cancelKey[t] = "1" THEN <<0, 0, "queued">>
                                     ELSE <<>>]
    /\ rivals = [t \in Runs |-> {}]
    /\ JobInit
    /\ document = NewDocument

\* The steps of the batch task t when its type is "ai", the provider
\* answers, and every document of the list has its row and its file.
CrashStep(t) ==
    \/ BatchCheckActive(t)
    \/ BatchClaim(t)
    \/ BatchBegin(t)
    \/ BatchLoop(t)
    \/ BatchCancelCleanup(t)
    \/ BatchCancelRelease(t)
    \/ BatchPause(t)
    \/ BatchPausedEvent(t)
    \/ BatchSleep(t)
    \/ BatchResume(t)
    \/ BatchDocFound(t)
    \/ BatchFatal(t)
    \/ BatchClearSkip(t)
    \/ run_ai_analysis(t, "ok", "ok", "other", None, "call")
    \/ stage_exception(t)
    \/ BatchAfter(t)
    \/ BatchFinally(t)
    \/ BatchRelease(t)
    \/ BatchPublish(t)

\* The runs execute, workers die, keys expire, the admin asks for the
\* status and starts another run.
NextCrash ==
    \/ start_batch_reprocess(MaxDocs, "ai")
    \/ \E t \in Runs : CrashStep(t)
    \/ \E t \in Runs, noticed \in BOOLEAN : worker_lost(t, noticed)
    \/ active_task_expires
    \/ \E t \in Runs : control_keys_expire(t)
    \/ get_active_reprocess
    \/ get_active_reprocess_cleanup

\* A worker that lives keeps executing its task, and Redis expires what is
\* due.
SpecCrash ==
    /\ InitClaimed
    /\ [][NextCrash]_vars
    /\ \A t \in Runs : WF_vars(CrashStep(t))
    /\ WF_vars(active_task_expires)
    /\ \A t \in Runs : WF_vars(control_keys_expire(t))

\* ---- the event stream (app/api/events.py) ---------------------------------
StreamUsers == {"u1", "u2"}
MaxChannel == 2     \* messages waiting on the channel

\* what a client puts in ?token=: nothing, or a JWT that verifies or not
\* (bad signature, expired), of type access or refresh, for a user with a role
Tokens == [given : BOOLEAN, valid : BOOLEAN, type : {"access", "refresh"},
           sub : StreamUsers, role : {"user", "admin"}]

\* decode_token (app/core/security.py:47-52): the payload, or None on error
decode_token(token) ==
    [decoded |-> token.valid, type |-> token.type, sub |-> token.sub,
     role |-> token.role]

\* sse_events, lines 75-85: who the generator is started for
sse_events(token) ==
    /\ ~stream.connected
    /\ LET payload == decode_token(token)
           accepted == token.given /\ payload.decoded /\ payload.type = "access"
       IN  stream' = [user_id   |-> IF accepted THEN payload.sub ELSE None,
                      is_admin  |-> accepted /\ payload.role = "admin",
                      connected |-> TRUE]
    /\ channel' = <<>>
    /\ yielded' = {}
    /\ UNCHANGED <<batchVars, jobVars, settingsVars>>

\* publish_event (app/core/events.py:20-30) puts a message on the channel
\* whose data.user_id is owner: the owner of the document, the admin of a
\* batch run, or None
event_published(owner) ==
    /\ stream.connected
    /\ Len(channel) < MaxChannel
    /\ channel' = Append(channel, owner)
    /\ UNCHANGED <<batchVars, jobVars, settingsVars, stream, yielded>>

\* _event_generator, lines 39-57: the next message is dropped when the
\* filter of lines 51-54 applies and sent to the client otherwise
event_generator_step ==
    /\ stream.connected
    /\ channel # <<>>
    /\ LET event_user_id == Head(channel)
           dropped == /\ ~stream.is_admin /\ stream.user_id # None
                      /\ event_user_id # None /\ event_user_id # stream.user_id
       IN  yielded' = IF dropped THEN yielded ELSE yielded \cup {event_user_id}
    /\ channel' = Tail(channel)
    /\ UNCHANGED <<batchVars, jobVars, settingsVars, stream>>

\* lines 36-37 and 62-65: the client has gone
request_disconnected ==
    /\ stream.connected
    /\ stream' = NoStream
    /\ channel' = <<>>
    /\ UNCHANGED <<batchVars, jobVars, settingsVars, yielded>>

NextStream ==
    \/ \E token \in Tokens : sse_events(token)
    \/ \E owner \in StreamUsers \cup {None} : event_published(owner)
    \/ event_generator_step
    \/ request_disconnected

SpecStream == Init /\ [][NextStream]_vars

\* ---- classification in both drivers ---------------------------------------
\* The steps of a batch run of type "ai" that no admin request interferes
\* with, for every answer of the provider.
ClassifyStep(t) ==
    \/ BatchCheckActive(t)
    \/ BatchClaim(t)
    \/ BatchBegin(t)
    \/ BatchLoop(t)
    \/ BatchPause(t)
    \/ BatchResume(t)
    \/ BatchDocMissing(t)
    \/ BatchFileMissing(t)
    \/ BatchDocFound(t)
    \/ BatchFatal(t)
    \/ BatchClearSkip(t)
    \/ /\ pc[t] = "stage"
       /\ \E config \in AiConfigs, response \in Responses, raw_type \in RawTypes,
             raw_due \in RawDueDates, vision \in {"call"} \cup NoVisionReasons :
             run_ai_analysis(t, config, response, raw_type, raw_due, vision)
    \/ stage_exception(t)
    \/ BatchAfter(t)
    \/ BatchFinally(t)
    \/ BatchRelease(t)
    \/ BatchPublish(t)

\* the classification columns of ClassifiedBefore
FieldsBefore ==
    {[document_type |-> doc.document_type, bill_status |-> doc.bill_status,
      bill_due_date |-> doc.bill_due_date, bill_paid_at |-> doc.bill_paid_at] :
        doc \in ClassifiedBefore}

\* Two scenes: a batch run of type "ai" has been enqueued for MaxDocs
\* documents, the first of them with or without text and classified before
\* or not, and no classification job exists; or one classification job is
\* queued for such a document and no batch run exists.
InitClassify ==
    \/ /\ activeTask = NoTask
       /\ pauseKey  = [t \in Runs |-> None]
       /\ cancelKey = [t \in Runs |-> None]
       /\ skipKey   = [t \in Runs |-> None]
       /\ pc        = [t \in Runs |-> IF t = 1 THEN "queued" ELSE "unused"]
       /\ total     = [t \in Runs |-> IF t = 1 THEN MaxDocs ELSE 0]
       /\ job_type  = [t \in Runs |-> IF t = 1 THEN "ai" ELSE "ocr"]
       /\ idx       = [t \in Runs |-> 0]
       /\ stats     = [t \in Runs |-> ZeroStats]
       /\ errors    = [t \in Runs |-> <<>>]
       /\ result    = [t \in Runs |-> None]
       /\ proc      = [t \in Runs |-> None]
       /\ terminal  = [t \in Runs |-> <<>>]
       /\ progress  = [t \in Runs |-> NoProgress]
       /\ content_text \in [Docs -> {None, "orig"}]
       /\ doc_fields \in [Docs -> FieldsBefore]
       /\ \A d \in Docs : d # 1 => (content_text[d] = "orig" /\ doc_fields[d] = NoFields)
       /\ apiCalls  = 0
       /\ resp      = [code |-> 200, task_id |-> 1]
       /\ cancelReq = NoTask
       /\ activeReq = FALSE
       /\ stream = NoStream
       /\ channel = <<>>
       /\ yielded = {}
       /\ SettingsInit
       /\ skipReq = [t \in Runs |-> [doc |-> 0, at |-> None]]
       /\ cancelledAt = [t \in Runs |-> <<>>]
       /\ rivals = [t \in Runs |-> {}]
       /\ JobAbsent
       /\ document = NewDocument
    \/ /\ BatchInit
       /\ JobQueued("ai_analysis")
       /\ document \in ClassifiedBefore

NextClassify ==
    \/ \E t \in Runs : ClassifyStep(t)
    \/ NextAi

SpecClassify == InitClassify /\ [][NextClassify]_vars

\* ---- get_setting and the writers (app/core/settings_service.py) ------------
settingsFrame == <<batchVars, jobVars, streamVars>>

\* clear_cache, lines 39-43
clear_cache ==
    /\ cache' = [k \in AI_SETTING_KEYS |-> None]
    /\ cache_time' = 0
    /\ fetched_at' = [k \in AI_SETTING_KEYS |-> NotFetched]

\* get_setting, lines 46-70: the cache when it is fresh and holds the key,
\* else the row (which is put into the cache and restarts the one clock of
\* the whole cache), else the environment
get_setting(key) ==
    /\ key \in AI_SETTING_KEYS
    /\ IF clock - cache_time < CACHE_TTL /\ cache[key] # None
       THEN /\ served' = [key |-> key, value |-> cache[key], cached |-> TRUE,
                          age |-> clock - fetched_at[key].at,
                          fresh |-> fetched_at[key].writes = writes]
            /\ UNCHANGED <<cache, cache_time, fetched_at>>
       ELSE IF rows[key] # None
       THEN /\ cache' = [cache EXCEPT ![key] = rows[key]]
            /\ cache_time' = clock
            /\ fetched_at' = [fetched_at EXCEPT ![key] = [at |-> clock, writes |-> writes]]
            /\ served' = [key |-> key, value |-> rows[key], cached |-> FALSE,
                          age |-> 0, fresh |-> TRUE]
       ELSE /\ served' = [key |-> key, value |-> "env", cached |-> FALSE,
                          age |-> 0, fresh |-> TRUE]
            /\ UNCHANGED <<cache, cache_time, fetched_at>>
    /\ UNCHANGED <<settingsFrame, rows, clock, writes>>

\* set_ai_settings, lines 106-131, for data = {key: value}
set_ai_settings(key, value) ==
    /\ writes < MaxWrites
    /\ key \in AI_SETTING_KEYS /\ value \in SettingValues
    /\ rows' = [rows EXCEPT ![key] = value]
    /\ clear_cache
    /\ writes' = writes + 1
    /\ UNCHANGED <<settingsFrame, clock, served>>

\* delete_all_ai_settings, lines 134-141
delete_all_ai_settings ==
    /\ writes < MaxWrites
    /\ rows' = [k \in AI_SETTING_KEYS |-> None]
    /\ clear_cache
    /\ writes' = writes + 1
    /\ UNCHANGED <<settingsFrame, clock, served>>

\* another process (the API server next to the worker) writes a row; the
\* cache of this process is not told
settings_written_elsewhere(key, value) ==
    /\ key \in AI_SETTING_KEYS /\ value \in SettingValues
    /\ rows[key] # value
    /\ rows' = [rows EXCEPT ![key] = value]
    /\ UNCHANGED <<settingsFrame, cache, cache_time, clock, fetched_at, writes, served>>

\* time passes
clock_advances ==
    /\ clock + Tick <= MaxClock
    /\ clock' = clock + Tick
    /\ UNCHANGED <<settingsFrame, cache, cache_time, rows, fetched_at, writes, served>>

NextSettings ==
    \/ \E key \in AI_SETTING_KEYS : get_setting(key)
    \/ \E key \in AI_SETTING_KEYS, value \in SettingValues : set_ai_settings(key, value)
    \/ delete_all_ai_settings
    \/ \E key \in AI_SETTING_KEYS, value \in SettingValues :
           settings_written_elsewhere(key, value)
    \/ clock_advances

SpecSettings == Init /\ [][NextSettings]_vars

\* ==== properties ============================================================
BlockedEvent(t) ==
    TerminalEvent("reprocess.completed", "blocked", ZeroStats,
                  <<[document |-> "(blocked)", error |-> "blocked"]>>, total[t])

\* C1 (as claimed): a run whose start request was made while another run had
\* been started and had not returned is rejected: it never gets past the check
\* of the marker, it handles no document, and when it returns its result is
\* 'blocked'; this also holds after the other run has finished.
C1_SecondStartRejected ==
    \A t \in Runs :
        rivals[t] # {}
        => /\ pc[t] \in {"queued", "done"}
           /\ idx[t] = 0
           /\ pc[t] = "done" => result[t] = "blocked"

\* C2: the step in which a run finds the marker naming another run publishes
\* the one 'blocked' terminal event with all four counters 0, handles no
\* document, and changes neither the marker, nor any pause, cancel or skip
\* key, nor any document, nor anything of another run.
C2_BlockedLeavesFirstRunUntouched ==
    /\ [][ \A t \in Runs :
             (result[t] # "blocked" /\ result'[t] = "blocked")
             => /\ UNCHANGED <<activeTask, pauseKey, cancelKey, skipKey, content_text, doc_fields>>
                /\ terminal'[t] = <<BlockedEvent(t)>>
                /\ \A u \in Runs \ {t} :
                     /\ pc'[u] = pc[u] /\ idx'[u] = idx[u] /\ stats'[u] = stats[u]
                     /\ errors'[u] = errors[u] /\ terminal'[u] = terminal[u]
                     /\ progress'[u] = progress[u]
         ]_vars
    /\ [](\A t \in Runs :
             result[t] = "blocked"
             => /\ terminal[t] = <<BlockedEvent(t)>>
                /\ terminal[t][1].processed = 0 /\ terminal[t][1].succeeded = 0
                /\ terminal[t][1].failed = 0 /\ terminal[t][1].skipped = 0
                /\ stats[t] = ZeroStats /\ progress[t] = NoProgress)

\* a run is blocked while the first run is inside its loop and still holds the
\* marker
C2_Witness ==
    \E t, u \in Runs :
        /\ result[t] = "blocked"
        /\ activeTask = u /\ u # t
        /\ pc[u] \in {"stage", "poll"}

\* C7: when the poll loop sees the skip key while the subprocess is alive, the
\* subprocess is killed and the document is counted in 'skipped' only: neither
\* 'succeeded' nor 'failed' moves, no error entry is added and no document
\* text is written, in that step and in the handler of line 226-228 after it.
C7_SkipCountsAsSkipped ==
    /\ [][ \A t \in Runs :
             /\ (pc[t] = "poll" /\ pc'[t] = "skipped")
                => /\ should_skip(t)
                   /\ proc'[t] = "killed"
                   /\ stats'[t] = [stats[t] EXCEPT !.skipped = @ + 1]
                   /\ errors'[t] = errors[t]
                   /\ content_text' = content_text
             /\ (pc[t] = "skipped" /\ pc'[t] # "skipped")
                => /\ pc'[t] = "after"
                   /\ stats'[t] = stats[t]
                   /\ errors'[t] = errors[t]
                   /\ content_text' = content_text
         ]_vars
    /\ [](\A t \in Runs :
             pc[t] = "skipped"
             => /\ proc[t] = "killed"
                /\ \A i \in DOMAIN errors[t] :
                       errors[t][i].document # DocName(CurrentDoc(t)))

\* the subprocess of a document has been killed on a skip request
C7_Witness ==
    \E t \in Runs :
        /\ pc[t] = "skipped" /\ proc[t] = "killed"
        /\ stats[t].skipped = 1 /\ stats[t].failed = 0
        /\ content_text[CurrentDoc(t)] = "orig"

\* C8: whenever a run is inside the stage of a document and its skip key is
\* set, the key was set during the stage of that same document: a key set
\* earlier (during another document, or before line 218) has been cleared.
C8_SkipDoesNotLeak ==
    \A t \in Runs :
        (pc[t] \in {"stage", "poll"} /\ should_skip(t))
        => (skipReq[t].doc = idx[t] /\ skipReq[t].at \in {"stage", "poll"})

\* a skip request arrived during document 1 and was not consumed there; the
\* run is in the stage of document 2 and finds the key cleared
C8_Witness ==
    \E t \in Runs :
        /\ pc[t] \in {"stage", "poll"} /\ idx[t] = 2
        /\ skipReq[t].doc = 1 /\ skipReq[t].at \in {"stage", "poll"}
        /\ stats[t].skipped = 0
        /\ skipKey[t] = None

\* C9: a run whose cancel key was first set when its processed count was k
\* carries processed = k or k + 1 in its terminal event, and no progress or
\* terminal event of any run carries processed > total.
C9_CancelStopsWithinOne ==
    \A t \in Runs :
        /\ progress[t].current <= progress[t].total
        /\ \A i \in DOMAIN terminal[t] :
              /\ terminal[t][i].total = total[t]
              /\ terminal[t][i].processed <= terminal[t][i].total
              /\ cancelledAt[t] # <<>>
                 => terminal[t][i].processed \in {cancelledAt[t][1], cancelledAt[t][1] + 1}

\* cancelled with nothing processed, the document in flight completed first
C9_Witness ==
    \E t \in Runs :
        /\ cancelledAt[t] # <<>> /\ cancelledAt[t][1] = 0
        /\ terminal[t] # <<>>
        /\ terminal[t][1].event = "reprocess.cancelled"
        /\ terminal[t][1].processed = 1
        /\ total[t] > 1

HasFatal(errs) == \E i \in DOMAIN errs : errs[i].document = "(fatal)"

\* C10: a run never publishes a second terminal event, and a run that has
\* returned has published exactly one, which carries the run's final counters
\* and error list; after a fatal error in the loop that list holds the
\* '(fatal)' entry and the event is still published.
C10_OneTerminalEvent ==
    \A t \in Runs :
        /\ Len(terminal[t]) <= 1
        /\ pc[t] = "done"
           => /\ Len(terminal[t]) = 1
              /\ terminal[t][1].total = total[t]
              /\ result[t] = "blocked" => terminal[t][1] = BlockedEvent(t)
              /\ result[t] # "blocked"
                 => /\ terminal[t][1].processed = stats[t].processed
                    /\ terminal[t][1].succeeded = stats[t].succeeded
                    /\ terminal[t][1].failed = stats[t].failed
                    /\ terminal[t][1].skipped = stats[t].skipped
                    /\ terminal[t][1].errors = errors[t]
              /\ terminal[t][1].status = result[t]
        /\ (HasFatal(errors[t]) /\ pc[t] = "done") => HasFatal(terminal[t][1].errors)

\* a run has returned after a fatal error in its loop
C10_Witness ==
    \E t \in Runs :
        /\ pc[t] = "done"
        /\ HasFatal(errors[t])
        /\ Len(terminal[t]) = 1 /\ terminal[t][1].status = "completed"

\* C3 (as claimed): while the job stays in processing its progress never goes
\* down, and a completed job has progress 100.
C3_ProgressNeverDecreases ==
    /\ [][ (job.status = "processing" /\ job'.status = "processing")
           => job'.progress >= job.progress ]_vars
    /\ [](job.status = "completed" => job.progress = 100)

\* C4 (as claimed): once set, started_at never changes.
C4_StartedAtSetOnce ==
    [][ job.started_at # NoTime => job'.started_at = job.started_at ]_vars

\* C5 (as claimed): once set, completed_at never changes.
C5_CompletedAtSetOnce ==
    [][ job.completed_at # NoTime => job'.completed_at = job.completed_at ]_vars

\* C6 (as claimed): no step of the task or of Celery's hooks (a step that is
\* not the cancel endpoint's) changes a status that is completed or failed.
C6_TerminalStatusIsFinal ==
    [][ (job.status \in {"completed", "failed"} /\ UNCHANGED <<cancelling, cancels>>)
        => job'.status = job.status ]_vars

\* C11: a run that was not blocked deletes its pause, cancel and skip keys
\* (line 245) and the marker (line 246) before it returns: when it publishes
\* its last event or has returned the marker does not name it, the step of
\* line 245 leaves none of its three keys behind, no step between line 245
\* and the return is left out, and after line 245 only an admin request can
\* write one of its keys again.
C11_CleanupOnReturn ==
    /\ [](\A t \in Runs :
            (pc[t] \in {"publish", "done"} /\ result[t] # "blocked") => activeTask # t)
    /\ [][ \A t \in Runs :
             /\ (pc[t] = "finally" /\ pc'[t] # "finally")
                => /\ pc'[t] = "release"
                   /\ pauseKey'[t] = None /\ cancelKey'[t] = None /\ skipKey'[t] = None
             /\ (pc[t] = "release" /\ pc'[t] # "release") => activeTask' = NoTask
             /\ (pc[t] # "done" /\ pc'[t] = "done" /\ result'[t] # "blocked")
                => pc[t] \in {"release", "publish"}
             /\ (pc[t] # "release" /\ pc'[t] = "release") => pc[t] = "finally"
             /\ (pc[t] # "publish" /\ pc'[t] = "publish") => pc[t] = "release"
             /\ ( /\ pc[t] \in {"release", "publish", "done"}
                  /\ <<pauseKey'[t], cancelKey'[t], skipKey'[t]>>
                       # <<pauseKey[t], cancelKey[t], skipKey[t]>> )
                => (apiCalls' # apiCalls \/ cancelReq' # cancelReq)
         ]_vars

\* a cancelled run has returned: the cancel key that stopped it is gone and
\* the marker is free
C11_Witness ==
    \E t \in Runs :
        /\ pc[t] = "done" /\ result[t] = "cancelled"
        /\ cancelledAt[t] # <<>>
        /\ pauseKey[t] = None /\ cancelKey[t] = None /\ skipKey[t] = None
        /\ activeTask = NoTask

\* positions of the task before the stage of the document at the loop index
BeforeDocument == {"loop", "pause", "paused", "sleep", "resume"}

\* C12 (as claimed): a run whose cancel key was set while it was at a document
\* of its list whose processing had not begun (or before its loop) handles no
\* further document and its terminal event is reprocess.cancelled with the
\* counters it had when the key was set, never reprocess.completed; also when
\* the key is set during the pause loop.
C12_CancelEndsCancelled ==
    \A t \in Runs :
        ( /\ cancelledAt[t] # <<>>
          /\ \/ cancelledAt[t][3] \in {"queued", "claim", "begin"}
             \/ cancelledAt[t][3] \in BeforeDocument /\ cancelledAt[t][2] <= total[t]
          /\ result[t] # "blocked" )
        => /\ stats[t].processed = cancelledAt[t][1]
           /\ \A i \in DOMAIN terminal[t] :
                 /\ terminal[t][i].event = "reprocess.cancelled"
                 /\ terminal[t][i].status = "cancelled"
                 /\ terminal[t][i].processed = cancelledAt[t][1]

\* positions inside the body of the while loop of lines 186-190
PauseLoop == {"paused", "sleep"}

\* C13: a run that reads its pause key set at line 186 enters the wait loop and
\* starts no stage; inside the loop it changes no counter, no document and no
\* loop index and publishes only 'paused' progress events; it leaves the loop
\* only on reading the pause key cleared (line 186) or the cancel key set
\* (line 189); once the key is cleared it goes on to the lookup of the
\* document unless it is paused again or cancelled; and a run cancelled inside
\* the loop returns although the pause key is never cleared.
C13_PauseLoop ==
    /\ [][ \A t \in Runs :
             /\ (pc[t] = "pause" /\ pc'[t] # "pause")
                => pc'[t] = (IF is_paused(t) THEN "paused" ELSE "resume")
             /\ pc[t] \in PauseLoop
                => /\ pc'[t] \in PauseLoop \cup {"pause", "resume"}
                   /\ stats'[t] = stats[t] /\ errors'[t] = errors[t]
                   /\ idx'[t] = idx[t] /\ terminal'[t] = terminal[t]
                   /\ proc'[t] = proc[t] /\ content_text' = content_text
                   /\ progress'[t] # progress[t]
                      => /\ progress'[t].status = "paused"
                         /\ progress'[t].current = stats[t].processed
             /\ (pc[t] \in PauseLoop /\ pc'[t] = "resume") => is_cancelled(t)
         ]_vars
    /\ \A t \in Runs :
         (pc[t] \in PauseLoop /\ pauseKey[t] = "0")
            ~> (pc[t] = "lookup" \/ is_paused(t) \/ cancelledAt[t] # <<>>)
    /\ \A t \in Runs :
         (pc[t] \in PauseLoop /\ is_cancelled(t)) ~> pc[t] = "done"

\* a run that waited in the pause loop has been resumed and is at the lookup
\* of the document it was paused before
C13_Witness ==
    \E t \in Runs :
        /\ pc[t] = "lookup"
        /\ progress[t].status = "paused" /\ progress[t].paused
        /\ pauseKey[t] = "0"
        /\ cancelledAt[t] = <<>>

\* C14 (as claimed): when the provider's response is text that cannot be
\* parsed, on either path, the exception leaves the task (to be retried by
\* Celery) and that step does not mark the job failed; a job that is failed
\* after such a response has used up its retries.
C14_ParseErrorIsRetried ==
    /\ [][ (last_call' # last_call /\ last_call'.outcome = "unparseable")
           => (jpc' = "raised" /\ job'.status = job.status) ]_vars
    /\ []( (last_call.outcome = "unparseable" /\ job.exists /\ job.status = "failed")
           => retries = CELERY_TASK_MAX_RETRIES )

\* C15 (as claimed): when the provider call fails (network or provider
\* failure), on the text path or on the vision path, the exception leaves the
\* task for Celery's retry policy; the job is failed only with the retries
\* used up and then carries the error as its message.
C15_TransientIsRetried ==
    /\ [][ (last_call' # last_call /\ last_call'.outcome = "transient")
           => (jpc' = "raised" /\ job'.status = job.status) ]_vars
    /\ []( (last_call.outcome = "transient" /\ job.exists /\ job.status = "failed")
           => (retries = CELERY_TASK_MAX_RETRIES /\ job.error_message = "exc") )

IsConfigError(config) == config \in {"provider_none", "no_key", "unknown"}

\* C16 (as claimed): an execution that has read a configuration with no
\* provider, an unknown provider or no credential never raises, and when it
\* has returned the job is failed with the configuration message.
C16_ConfigErrorFailsFast ==
    /\ []( IsConfigError(ai_config) => jpc # "raised" )
    /\ []( (IsConfigError(ai_config) /\ jpc = "returned" /\ job.exists)
           => (job.status = "failed" /\ job.error_message = ConfigMessage(ai_config)) )

\* C16 (amended): when analyze_document or analyze_document_vision is called
\* with such a configuration, that step marks the job failed with the
\* configuration message and the task returns without raising; the task is
\* not retried for it and, once returned, is never executed again.
C16_ConfigErrorFailsFast_Amended ==
    /\ [][ (last_call' # last_call /\ last_call'.outcome = "config")
           => /\ IsConfigError(ai_config)
              /\ jpc' = "returned"
              /\ job' = mark_job_failed(job, ConfigMessage(ai_config), now)
              /\ retries' = retries
         ]_vars
    /\ [][ (jpc = "returned" /\ last_call.outcome = "config")
           => (jpc' = "returned" /\ retries' = retries /\ job'.status = job.status
               /\ job'.error_message = job.error_message) ]_vars
    /\ []( IsConfigError(ai_config) => jpc # "raised" )
    /\ []( (last_call.outcome = "config" /\ job.exists)
           => (jpc = "returned" /\ job.status = "failed"
               /\ job.error_message = ConfigMessage(ai_config)) )

\* the vision path was taken for a document without text and the provider
\* function rejected a configuration without credential
C16_Witness ==
    /\ last_call = [path |-> "vision", outcome |-> "config"]
    /\ ai_config = "no_key"
    /\ jpc = "returned"
    /\ job.status = "failed" /\ job.error_message = "AI_API_KEY is not set"
    /\ retries = 0

\* C17: when ocrmypdf rejects the source PDF as encrypted or invalid, the
\* extraction job is marked failed in that step with the message of line 156
\* or 160 and the task returns without raising: the retry counter, the
\* document's text and the follow-on jobs are unchanged in that step, and the
\* returned task is never retried, writes no text and creates no follow-on
\* job afterwards.
C17_RejectedPdfFailsFast ==
    /\ [][ (last_call' # last_call /\ last_call'.outcome \in {"encrypted", "invalid"})
           => /\ jpc' = "returned"
              /\ job' = mark_job_failed(job, RejectMessage(last_call'.outcome), now)
              /\ retries' = retries
              /\ document' = document
              /\ followups' = followups
         ]_vars
    /\ [][ (jpc = "returned" /\ last_call.outcome \in {"encrypted", "invalid"})
           => (jpc' = "returned" /\ retries' = retries /\ document' = document
               /\ followups' = followups /\ last_call' = last_call) ]_vars
    /\ []( last_call.outcome \in {"encrypted", "invalid"}
           => (jpc = "returned" /\ followups = NoFollowups) )

\* an encrypted PDF has failed its job on the first execution
C17_Witness ==
    /\ last_call = [path |-> "ocrmypdf", outcome |-> "encrypted"]
    /\ jpc = "returned"
    /\ job.status = "failed"
    /\ job.error_message = "PDF is encrypted and cannot be processed"
    /\ document.content_text = None
    /\ followups = NoFollowups
    /\ retries = 0

\* str(e) of the exceptions a stage can raise
StageMessages ==
    {"exception", "No analysis possible", "Expecting value"}
    \cup {ConfigMessage(config) : config \in AiConfigs \ {"ok"}}

\* the per-document error entries of the handler of lines 230-233
StageErrors(t) ==
    {i \in 1..Len(errors[t]) :
        errors[t][i].error \in StageMessages /\ errors[t][i].document # "(fatal)"}

C19_MissingRowIsSilent ==
    /\ [](~job.exists =>
            /\ mark_job_started(job, now) = job
            /\ \A percent \in {10, 50, 100}, status \in {None, "processing"} :
                  update_job_progress(job, percent, status, now) = job
            /\ mark_job_completed(job, "ocr_result", now) = job
            /\ mark_job_failed(job, "exc", now) = job
            /\ on_retry(job) = job)
    /\ [][ ~job.exists
           => /\ job' = job
              /\ published' = published
              /\ (jpc' = "raised" /\ jpc # "raised") => jpc \in {"ocr", "commit"}
         ]_vars

\* the row was removed before the first execution started; the task was
\* retried once and has run to its end
C19_Witness ==
    /\ ~job.exists
    /\ job.status = "pending" /\ job.started_at = NoTime /\ job.error_message = None
    /\ published = NoEvent
    /\ retries = 1
    /\ jpc = "returned"
    /\ document.content_text # None

\* a step of run t that calls publish_event
BatchPublishes(t) ==
    \/ pc[t] \in {"begin", "paused", "after", "publish"}
    \/ pc[t] = "lookup" /\ pc'[t] = "clear"
    \/ pc[t] = "loop" /\ terminal'[t] # terminal[t]

\* the status every lifecycle method commits before it publishes its event
CommittedStatus(event) ==
    IF event = "job.completed" THEN "completed"
    ELSE IF event = "job.failed" THEN "failed"
    ELSE "processing"

\* C20: publish_event returns to its caller whether the transport works or
\* not. No batch run is ever left by an exception of a publish call, and the
\* extraction task raises only where ocrmypdf or the document write raises.
\* A step that publishes while the transport is down ends where the same
\* step ends with the transport up: the run at its next position with no
\* error entry added and the statistics as the step computes them, the task
\* at a position other than "raised" with the job row as the lifecycle method
\* committed it.
C20_PublishNeverRaises ==
    /\ [](\A up \in BOOLEAN : publish_event(up) = "returns")
    /\ [](\A t \in Runs : pc[t] \notin {"fatal", "crashed"})
    /\ [][ (jpc' = "raised" /\ jpc # "raised") => jpc \in {"ocr", "commit"} ]_vars
    /\ [][ \A t \in Runs :
             (~transport_up /\ pc'[t] # pc[t] /\ BatchPublishes(t))
             => /\ pc'[t] \in {"loop", "sleep", "clear", "cancel_cleanup", "done"}
                /\ errors'[t] = errors[t]
                /\ stats'[t] = IF pc[t] = "after" THEN Bump(stats[t], "processed")
                               ELSE stats[t]
         ]_vars
    /\ [][ (~transport_up /\ published' # published)
           => /\ ~published'.delivered
              /\ jpc' \notin {jpc, "raised"}
              /\ job'.status = CommittedStatus(published'.event)
              /\ published'.event = "job.completed" => job'.progress = 100
              /\ retries' = retries
         ]_vars

\* the extraction task has completed its job on the first execution although
\* the transport did not take the completion event
C20_Witness ==
    /\ published = [event |-> "job.completed", flip |-> published.flip, delivered |-> FALSE]
    /\ job.status = "completed" /\ job.progress = 100
    /\ jpc = "returned"
    /\ retries = 0
    /\ document.content_text = "ocr"

\* C21: the retry hook changes only error_message. Applied to any reachable
\* row, on_retry gives a row whose status, progress, started_at, completed_at,
\* result_data and task id are those of the row it was given, and the step in
\* which Celery puts a raised task back on the queue leaves these fields of
\* the job as they were.
C21_RetryHookOnlyMessage ==
    /\ [](\A f \in (DOMAIN job) \ {"error_message"} : on_retry(job)[f] = job[f])
    /\ [][ (jpc = "raised" /\ jpc' = "queued")
           => /\ \A f \in (DOMAIN job) \ {"error_message"} : job'[f] = job[f]
              /\ job.exists => job'.error_message = "Retrying: exc"
              /\ published' = published
         ]_vars

\* a task that raised after reporting progress is back on the queue with the
\* message of the hook on a row that is still processing
C21_Witness ==
    /\ jpc = "queued"
    /\ retries = 1
    /\ job.exists
    /\ job.error_message = "Retrying: exc"
    /\ job.status = "processing"
    /\ job.progress = 90
    /\ job.started_at # NoTime
    /\ job.completed_at = NoTime

\* the answer carries no usable document_type: none at all, or only blanks
IsMissingType(raw_type) ==
    raw_type = None \/ strip(raw_type) = ""

\* the value is a valid type or matches an alias, exactly or as a substring
\* in either direction, once case and surrounding blanks are ignored
MatchesSomething(raw_type) ==
    LET normalized == lower(strip(raw_type)) IN
    \/ normalized \in VALID_DOCUMENT_TYPES
    \/ \E k \in 1..Len(DOCUMENT_TYPE_ALIASES) :
          \/ IsSubstring(DOCUMENT_TYPE_ALIASES[k][1], normalized)
          \/ IsSubstring(normalized, DOCUMENT_TYPE_ALIASES[k][1])

\* C25: whenever the provider has answered with a JSON object, the type of
\* the result is in the closed vocabulary; it is the answer's value itself
\* when that is valid up to case and surrounding blanks, the alias' category
\* when the value is an alias, and "other" when the value is missing or
\* matches nothing; normalising it again gives the same type. The type
\* stored in the document is in the vocabulary too.
C25_TypeInVocabulary ==
    /\ (last_call.outcome = "ok" /\ last_call.path \in {"text", "vision"})
       => LET raw_type == last_call.document_type
              type == ai_result.document_type
          IN  /\ type \in VALID_DOCUMENT_TYPES
              /\ normalize_document_type(type) = type
              /\ IsMissingType(raw_type) => type = "other"
              /\ (~IsMissingType(raw_type) /\ lower(strip(raw_type)) \in VALID_DOCUMENT_TYPES)
                 => type = lower(strip(raw_type))
              /\ (~IsMissingType(raw_type) /\ \E k \in 1..Len(DOCUMENT_TYPE_ALIASES) :
                      DOCUMENT_TYPE_ALIASES[k][1] = lower(strip(raw_type)))
                 => \E k \in 1..Len(DOCUMENT_TYPE_ALIASES) :
                      /\ DOCUMENT_TYPE_ALIASES[k][1] = lower(strip(raw_type))
                      /\ type = DOCUMENT_TYPE_ALIASES[k][2]
              /\ (~IsMissingType(raw_type) /\ ~MatchesSomething(raw_type)) => type = "other"
    /\ document.document_type \in VALID_DOCUMENT_TYPES \cup {None}

\* C22: the queue-driven task takes the text path exactly when the document
\* has text and the vision path only when it has none; when the paths leave
\* no result the job is failed in that step with the 'no analysis possible'
\* message and the task returns; the document row is written only from a
\* result. In a batch run of type "ai" a document with text never fails with
\* the 'no analysis possible' message (the vision path is not tried for it),
\* a document without text that fails for lack of a result is recorded with
\* that message, and a failing stage writes no classification column.
C22_TextFirstVisionFallback ==
    /\ [](jpc = "ai_text" => document.content_text # None)
    /\ [](jpc = "ai_vision" => document.content_text = None)
    /\ [](last_call.path = "text" => document.content_text # None)
    /\ [](last_call.path = "vision" => document.content_text = None)
    /\ [][ (jpc = "ai_load" /\ jpc' # jpc)
           => jpc' = IF document.content_text # None THEN "ai_text" ELSE "ai_vision" ]_vars
    /\ [][ (jpc = "ai_check" /\ ai_result = NoResult /\ jpc' # jpc)
           => /\ jpc' = "returned"
              /\ job' = mark_job_failed(job, "No analysis possible", now)
              /\ document' = document ]_vars
    /\ [][ document' # document => (jpc = "ai_commit" /\ ai_result # NoResult) ]_vars
    /\ [][ \A t \in Runs :
             (job_type[t] = "ai" /\ pc[t] = "stage" /\ pc'[t] # pc[t])
             => LET d == CurrentDoc(t)
                    failed == stats'[t] = Bump(stats[t], "failed")
                    message == errors'[t][Len(errors'[t])].error
                IN  /\ failed \/ stats'[t] = Bump(stats[t], "succeeded")
                    /\ failed => /\ doc_fields' = doc_fields
                                 /\ Len(errors'[t]) = Len(errors[t]) + 1
                                 /\ errors'[t][Len(errors'[t])].document = DocName(d)
                    /\ (failed /\ content_text[d] # None) => message # "No analysis possible"
                    /\ (failed /\ content_text[d] = None)
                       => message \in {"No analysis possible", "exception"}
                    /\ doc_fields' # doc_fields => ~failed
         ]_vars

\* a classified document without text: the vision call failed, the error was
\* dropped and the job ended with the 'no analysis possible' message, the
\* row as it was
C22_Witness ==
    /\ document = [content_text |-> None, document_type |-> "bill", bill_status |-> "unpaid",
                   bill_due_date |-> "2026-11-15", bill_paid_at |-> NoTime]
    /\ last_call = [path |-> "vision", outcome |-> "transient"]
    /\ ai_result = NoResult
    /\ jpc = "returned"
    /\ job.status = "failed" /\ job.error_message = "No analysis possible"

\* the bill-tracking columns are empty
BillCleared(doc) ==
    doc.bill_status = None /\ doc.bill_due_date = None /\ doc.bill_paid_at = NoTime

Billable == {"bill", "invoice"}

\* C23: whenever a classification writes a non-billable type to a document
\* whose type was bill or invoice, the document's bill status, due date and
\* paid timestamp are empty afterwards, in the queue-driven task and in a
\* batch run, whatever the bill status was.
C23_LeavingBillableClearsBill ==
    /\ [][ (document.document_type \in Billable
            /\ document'.document_type \in VALID_DOCUMENT_TYPES \ Billable)
           => BillCleared(document') ]_vars
    /\ [][ \A d \in Docs :
             (doc_fields[d].document_type \in Billable
              /\ doc_fields'[d].document_type \in VALID_DOCUMENT_TYPES \ Billable)
             => BillCleared(doc_fields'[d]) ]_vars

\* ---- recognition and embedded text ----------------------------------------
\* the extraction task has gone through ocrmypdf.ocr and come back
Recognised ==
    /\ last_call.path = "ocrmypdf"
    /\ last_call.outcome \in {"ok", "prior_ocr"}

\* C24: a PDF with embedded text gets its text without the recognition step,
\* in both drivers. In a batch run the stage step that adopts embedded text
\* starts no subprocess, and the step that starts one leaves the text alone;
\* in the extraction task ocrmypdf is only ever run on a PDF whose pages hold
\* no text.
C24_EmbeddedTextSkipsRecognition ==
    /\ [][\A t \in Runs :
            (pc[t] = "stage" /\ job_type[t] = "ocr" /\ pc'[t] # "stage")
            => /\ content_text'[CurrentDoc(t)] = "embedded" => proc'[t] = None
               /\ proc'[t] = "running" => UNCHANGED content_text]_vars
    /\ [](Recognised => last_call.pages = "blank")

\* ---- update_job_progress for every percent (app/tasks/base.py:42-67) ------
MaxBelow == 3         \* percents below 0 that are tried
MaxPercent == 103     \* highest percent that is tried
Percents == (0 - MaxBelow)..MaxPercent
MaxProgressCalls == 2

\* a task calls update_job_progress(job_id, percent, status) on its job
progress_called(percent, status) ==
    /\ now <= MaxProgressCalls
    /\ Lifecycle(update_job_progress(job, percent, status, now), "job.progress", jpc)
    /\ UNCHANGED jobFrame

NextProgress ==
    \E percent \in Percents, status \in {None, "processing"} :
        progress_called(percent, status)

SpecProgress == Init /\ [][NextProgress]_vars

\* C28: the progress a job row holds is within 0..100 whatever percent
\* update_job_progress was called with: a percent above 100 is stored as 100
\* and a percent below 0 as 0.
C28_ProgressClamped ==
    job.progress \in 0..100

\* ---- the marker as mutual exclusion ---------------------------------------
\* positions of batch_reprocess_task inside the for loop of lines 167-238,
\* from the fetch of an item to the progress event of the document
LoopPositions == {"loop", "pause", "paused", "sleep", "resume", "lookup", "clear",
                  "stage", "poll", "skipped", "after"}

InDocumentLoop(t) == pc[t] \in LoopPositions

\* C29: at any time at most one batch run is inside its document loop,
\* whatever start and cancel requests are made and whenever runs finish; no
\* run is in its loop while a cancelled run is still handling a document.
C29_OneRunInLoop ==
    \A t, u \in Runs : (InDocumentLoop(t) /\ InDocumentLoop(u)) => t = u

\* C30: a step that deletes the marker is taken for the run the marker names:
\* a run that reaches set_active_task(None) at line 182 or 246 deletes the
\* marker only when it names that run, and the cancel endpoint called for a
\* run deletes it only when it names that run.
C30_MarkerDeletedByItsRun ==
    [][ (activeTask # NoTask /\ activeTask' = NoTask)
        => /\ \A t \in Runs :
                (pc[t] \in {"release", "cancel_release"} /\ pc'[t] # pc[t])
                => activeTask = t
           /\ (cancelReq # NoTask /\ cancelReq' = NoTask) => activeTask = cancelReq
      ]_vars

\* ---- keys that outlive their worker ---------------------------------------
\* run t holds an entry in Redis: the marker names it, or one of its control
\* keys is set
HoldsEntry(t) ==
    \/ activeTask = t
    \/ pauseKey[t] # None
    \/ cancelKey[t] # None
    \/ skipKey[t] # None

\* C27: the marker and the pause, cancel and skip keys are written with a
\* TTL. When the worker of a run dies while the marker names the run or one
\* of its keys is set, the entries go away in the end; and a run that is
\* started once the marker is gone goes through its list and returns
\* 'completed', unless its own worker dies as well or a third run, started
\* like it, has taken the marker first.
C27_EntriesOutliveNoCrash ==
    /\ \A t \in Runs : (pc[t] \in Lost /\ HoldsEntry(t)) ~> ~HoldsEntry(t)
    /\ \A t, u \in Runs :
         (pc[t] \in Lost /\ pc[u] = "queued" /\ activeTask = NoTask)
         ~> \/ pc[u] \in Lost
            \/ pc[u] = "done" /\ result[u] = "completed"
            \/ /\ pc[u] = "done" /\ result[u] = "blocked"
               /\ \E v \in Runs \ {t, u} : pc[v] # "unused"

\* the first run died holding the marker and its pause key, both are gone,
\* and the second run has handled every document and returned 'completed'
C27_Witness ==
    /\ pc[1] \in Lost /\ idx[1] >= 1
    /\ ~HoldsEntry(1)
    /\ progress[1].paused
    /\ pc[2] = "done" /\ result[2] = "completed"
    /\ stats[2].processed = MaxDocs

\* ---- who sees which event -------------------------------------------------
\* C26: a client of the event stream that is not an admin, with or without a
\* valid token, is sent no event whose payload names another user: every
\* event it has been sent has no user_id or the client's own.
C26_StreamShowsOnlyOwnEvents ==
    (stream.connected /\ ~stream.is_admin)
    => \A event_user_id \in yielded :
           event_user_id = None \/ event_user_id = stream.user_id

\* ---- a subprocess that fails ----------------------------------------------
\* C31: when the poll loop of a batch extraction run ends without a skip and
\* the document has not got recognised text (the subprocess exited non-zero,
\* or with code 0 and no text on any page), the document is counted as
\* failed and gets an error entry; it is not counted as succeeded.
C31_FailedSubprocessCountsAsFailed ==
    [][\A t \in Runs :
         (pc[t] = "poll" /\ pc'[t] = "after" /\ content_text'[CurrentDoc(t)] # "ocr")
         => /\ stats'[t].failed = stats[t].failed + 1
            /\ stats'[t].succeeded = stats[t].succeeded
            /\ Len(errors'[t]) = Len(errors[t]) + 1]_vars

\* ---- a settled bill stays settled -----------------------------------------
Settled == {"paid", "dismissed"}

\* C32: no step of either driver changes a bill status of 'paid' or
\* 'dismissed'; and a classification that writes a billable type to a
\* document whose status is neither leaves the status 'unpaid'.
C32_SettledBillKept ==
    /\ [][ /\ document.bill_status \in Settled
              => document'.bill_status = document.bill_status
           /\ (jpc = "ai_commit" /\ jpc' = "ai_p90"
               /\ document'.document_type \in Billable
               /\ document.bill_status \notin Settled)
              => document'.bill_status = "unpaid" ]_vars
    /\ [][ \A d \in Docs :
             /\ doc_fields[d].bill_status \in Settled
                => doc_fields'[d].bill_status = doc_fields[d].bill_status
             /\ (\E t \in Runs : /\ pc[t] = "stage" /\ job_type[t] = "ai"
                                 /\ CurrentDoc(t) = d
                                 /\ stats'[t].succeeded = stats[t].succeeded + 1)
                /\ doc_fields'[d].document_type \in Billable
                /\ doc_fields[d].bill_status \notin Settled
                => doc_fields'[d].bill_status = "unpaid" ]_vars

\* a paid invoice has been classified as a bill again, by the task and by a
\* batch run, and is still paid
C32_Witness ==
    \/ /\ jpc = "ai_p90"
       /\ document.document_type = "bill" /\ document.bill_status = "paid"
       /\ ai_result.document_type = "bill"
    \/ \E t \in Runs :
         /\ pc[t] = "after" /\ job_type[t] = "ai" /\ stats[t].succeeded > 0
         /\ doc_fields[CurrentDoc(t)].document_type = "bill"
         /\ doc_fields[CurrentDoc(t)].bill_status = "dismissed"

\* ---- what the document.updated event names --------------------------------
\* the columns of the model's Document row that a classification can change
ClassifiedColumns == {"document_type", "bill_status", "bill_due_date"}

\* the columns in which two rows differ
ChangedColumns(before, after) ==
    {c \in ClassifiedColumns : before[c] # after[c]}

\* C33: the document.updated event of a successful classification lists a
\* column if and only if the classification changed it: in the queue-driven
\* task the list, cut down to type, bill status and due date, is the set of
\* those columns whose value the commit changed; and a batch run publishes
\* such an event for the document it has classified.
C33_ChangesNameWhatChanged ==
    /\ [][ (jpc = "ai_commit" /\ jpc' = "ai_p90")
           => document_updated_changes(ai_result) \cap ClassifiedColumns
              = ChangedColumns(document, document') ]_vars
    /\ [][ \A t \in Runs :
             (pc[t] = "stage" /\ job_type[t] = "ai"
              /\ stats'[t].succeeded = stats[t].succeeded + 1)
             => "document.updated" \in BatchDocumentEvents ]_vars

\* ---- progress after every document ------------------------------------------
\* the progress event last published by run t carries the counts st
CarriesCounts(t, st) ==
    /\ progress'[t].current = st.processed
    /\ progress'[t].succeeded = st.succeeded
    /\ progress'[t].failed = st.failed
    /\ progress'[t].skipped = st.skipped

\* C34: every step by which a run leaves a document it has handled (the row
\* looked up, or the work on it finished) for the next one increments
\* processed and publishes a progress event carrying the new counts, whatever
\* the outcome was: succeeded, failed, skipped, row missing or file missing.
C34_ProgressAfterEveryDocument ==
    [][\A t \in Runs :
         (pc[t] \in {"lookup", "after"} /\ idx'[t] = idx[t] + 1)
             => /\ stats'[t].processed = stats[t].processed + 1
                /\ progress'[t] # progress[t]
                /\ CarriesCounts(t, stats'[t])]_vars

C35_WitnessDispatchFailed ==
    /\ jpc = "returned"
    /\ job.status = "completed"
    /\ followups = [created |-> 1, dispatched |-> 0, provider |-> "set"]

\* ---- the counters of a batch run --------------------------------------------
Outcomes(st) == st.succeeded + st.failed + st.skipped

\* the documents of the list a run at position idx has left behind
Behind(t) == IF idx[t] = 0 THEN 0 ELSE idx[t] - 1

\* C36: every progress event and every terminal event of a run has
\* processed = succeeded + failed + skipped and processed <= total; the run
\* goes through its list one document at a time, in order; no step counts
\* more than one outcome, no document is counted twice (the outcomes counted
\* never exceed the documents reached), and a run that has not been told to
\* cancel has counted one outcome for every document it has left behind.
C36_CountersBalanced ==
    /\ [](\A t \in Runs :
            /\ progress[t].current =
                   progress[t].succeeded + progress[t].failed + progress[t].skipped
            /\ progress[t].current <= progress[t].total
            /\ \A i \in DOMAIN terminal[t] :
                  /\ terminal[t][i].processed = terminal[t][i].succeeded
                        + terminal[t][i].failed + terminal[t][i].skipped
                  /\ terminal[t][i].processed <= terminal[t][i].total)
    /\ [][\A t \in Runs :
            /\ idx'[t] \in {idx[t], idx[t] + 1}
            /\ Outcomes(stats'[t]) \in {Outcomes(stats[t]), Outcomes(stats[t]) + 1}
            /\ stats'[t].succeeded >= stats[t].succeeded
            /\ stats'[t].failed >= stats[t].failed
            /\ stats'[t].skipped >= stats[t].skipped]_vars
    /\ [](\A t \in Runs :
            /\ idx[t] <= total[t] + 1
            /\ Outcomes(stats[t]) <= Min(idx[t], total[t])
            /\ stats[t].processed <= Behind(t)
            /\ (pc[t] = "loop" /\ ~is_cancelled(t))
                  => (Outcomes(stats[t]) = Behind(t) /\ stats[t].processed = Behind(t)))

\* a run has published a terminal event after handling a list in which one
\* document succeeded and another was skipped
C36_Witness ==
    \E t \in Runs :
        /\ terminal[t] # <<>>
        /\ terminal[t][1].total = MaxDocs
        /\ terminal[t][1].processed = MaxDocs
        /\ terminal[t][1].succeeded >= 1
        /\ terminal[t][1].skipped >= 1

\* C37: a terminal event with status 'completed' and no '(fatal)' entry among
\* its errors reports a run that handled its whole list: processed = total.
C37_CompletedMeansAllHandled ==
    \A t \in Runs : \A i \in DOMAIN terminal[t] :
        (terminal[t][i].status = "completed" /\ ~HasFatal(terminal[t][i].errors))
            => terminal[t][i].processed = terminal[t][i].total

\* C39: a job whose status is completed has an empty error_message; stated
\* for jobs no cancel request was made for, so that the only writers of the
\* column are the task's lifecycle methods and the retry hook.
C39_CompletedHasNoErrorMessage ==
    (job.exists /\ job.status = "completed" /\ cancels = 0)
        => job.error_message = None

\* ---- jobs end -----------------------------------------------------------------
\* C38: with a worker that keeps running, a job whose task has started
\* executing reaches status completed or failed, whichever of the three tasks
\* runs it; a task that has returned never leaves its job in processing, and
\* the step taken when an exception finds the retries exhausted marks the
\* job failed.
C38_StartedJobsEnd ==
    /\ (jpc = "start") ~> (job.status \in {"completed", "failed"})
    /\ [](jpc = "returned" => job.status \in {"completed", "failed"})
    /\ [][(jpc = "raised" /\ retries >= CELERY_TASK_MAX_RETRIES)
             => (job'.status = "failed" /\ jpc' = "returned")]_vars

\* a file-organization job that was retried until no retry was left is failed
C38_Witness ==
    /\ job.job_type = "file_organization"
    /\ retries = CELERY_TASK_MAX_RETRIES
    /\ jpc = "returned"
    /\ job.status = "failed"
    /\ job.error_message = "exc"

\* ---- the settings cache -------------------------------------------------------
\* C40: a value that get_setting returns from the cache was read from the
\* database at most CACHE_TTL seconds before, whatever other keys were read
\* in between, and it was put into the cache after the last call of
\* set_ai_settings or delete_all_ai_settings of this process.
C40_CacheNeverOlderThanTtl ==
    served.cached => (served.age <= CACHE_TTL /\ served.fresh)

====
